---- MODULE Spec2Model ----
(***************************************************************************)
(* pikemon client: the session driver (client.rs run), the network tasks   *)
(* and reconciliation (net.rs), the engine hook handlers                   *)
(* (interface/mod.rs) and the text codec (interface/src/text.rs).          *)
(*                                                                         *)
(* The emulator (gb_emu) is a black box: one CpuStep puts the engine at an *)
(* arbitrary program counter with arbitrary contents of the memory cells   *)
(* the hooks read; HookStep then runs the two hook handlers on that state. *)
(* Bytes are integers 0..255 and u8 arithmetic wraps (% 256).              *)
(***************************************************************************)
EXTENDS Integers, Sequences, FiniteSets, TLC

VARIABLES
    conn,           \* handle_network: "connecting" | "up" | "failed"
    join_line,      \* the first line handle_network read, or NoLine
    err,            \* the NetworkError handle_network returned, or "none"
    id,             \* ClientDataManager.id (0 before the handshake)
    reader,         \* inbound thread: "none" | "running" | "stopped" | "panicked"
    writer,         \* outbound thread: "none" | "running"
    global_q,       \* global_update channel: reader thread -> recv_update
    local_q,        \* local_update channel: driver -> writer thread
    game_data,      \* GameData
    cpu,            \* Cpu registers the hooks touch: pc, a
    mem,            \* Memory cells the client touches
    last_state,     \* ClientDataManager.last_state
    new_update,     \* ClientDataManager.new_update
    dpc,            \* position of the driver loop of run
    last_broadcast, \* history: PlayerData of the last FullUpdate enqueued
    eval,           \* a call of a pure function: its name, argument and result
    peer            \* a second session, with the stream between the two

vars == <<conn, join_line, err, id, reader, writer, global_q, local_q, game_data, cpu, mem,
          last_state, new_update, dpc, last_broadcast, eval, peer>>

(***************************************************************************)
(* Bounds of the model.                                                    *)
(***************************************************************************)
MaxGlobalQ == 1     \* decoded events waiting in the global_update channel
MaxLocalQ == 0      \* events still waiting in local_update when the driver sends more
MaxPending == 1     \* an interception needs fewer bytes than this many framed messages pending

PeerIds == {1, 2}                   \* ids of the remote players
LocalId == Cardinality(PeerIds) + 1 \* the id the relay assigns to this session

(***************************************************************************)
(* Text codec: interface/src/text.rs.  A string is the sequence of its     *)
(* characters' code points.                                                *)
(***************************************************************************)
TEXT_START == 0
SPACE == 127
LINE_DOWN == 78
END_MSG == 87
TERMINATOR == 80

\* Mutant: a character outside every class is encoded as a space.
encode_char_InvalidAsSpace(c) ==
    LET val == c % 256
    IN  IF c >= 65 /\ c <= 90 THEN (128 + (val - 65)) % 256
        ELSE IF c = 40 THEN 138
        ELSE IF c = 41 THEN 139
        ELSE IF c = 58 THEN 140
        ELSE IF c = 59 THEN 141
        ELSE IF c = 91 THEN 142
        ELSE IF c = 93 THEN 143
        ELSE IF c >= 97 /\ c <= 122 THEN (160 + (val - 97)) % 256
        ELSE IF c = 39 THEN 224
        ELSE IF c = 45 THEN 227
        ELSE IF c = 63 THEN 230
        ELSE IF c = 33 THEN 231
        ELSE IF c = 46 THEN 232
        ELSE IF c = 47 THEN 243
        ELSE IF c = 44 THEN 244
        ELSE IF c >= 48 /\ c <= 57 THEN (246 + (val - 48)) % 256
        ELSE IF c = 32 THEN SPACE
        ELSE IF c = 10 THEN LINE_DOWN
        ELSE SPACE

encode_char(c) ==
    LET val == c % 256
    IN  IF c >= 65 /\ c <= 90 THEN (128 + (val - 65)) % 256
        ELSE IF c = 40 THEN 138
        ELSE IF c = 41 THEN 139
        ELSE IF c = 58 THEN 140
        ELSE IF c = 59 THEN 141
        ELSE IF c = 91 THEN 142
        ELSE IF c = 93 THEN 143
        ELSE IF c >= 97 /\ c <= 122 THEN (160 + (val - 97)) % 256
        ELSE IF c = 39 THEN 224
        ELSE IF c = 45 THEN 227
        ELSE IF c = 63 THEN 230
        ELSE IF c = 33 THEN 231
        ELSE IF c = 46 THEN 232
        ELSE IF c = 47 THEN 243
        ELSE IF c = 44 THEN 244
        ELSE IF c >= 48 /\ c <= 57 THEN (246 + (val - 48)) % 256
        ELSE IF c = 32 THEN SPACE
        ELSE IF c = 10 THEN LINE_DOWN
        ELSE 230

\* Encoder::new(text).collect(): next() shifts one character off the front
\* and yields its code until the string is empty.
RECURSIVE Encoder(_)
Encoder(text) ==
    IF text = <<>> THEN <<>>
    ELSE <<encode_char(Head(text))>> \o Encoder(Tail(text))

\* "PLAYER has nothing\nto say."
NothingToSay ==
    <<80, 76, 65, 89, 69, 82, 32, 104, 97, 115, 32, 110, 111, 116, 104, 105,
      110, 103, 10, 116, 111, 32, 115, 97, 121, 46>>

\* GameData::create_message_box: appends to whatever current_message holds.
create_message_box(current_message, input) ==
    current_message \o <<TEXT_START>> \o Encoder(input) \o <<END_MSG, TERMINATOR>>

FramedLen == Len(create_message_box(<<>>, NothingToSay))

(***************************************************************************)
(* Checkpoint addresses (interface/offsets.rs is not part of the sources   *)
(* at hand: the values stand for eight distinct addresses, none the        *)
(* successor of a next-character checkpoint).                              *)
(***************************************************************************)
OVERWORLD_LOOP_START == 10
SPRITE_CHECK_EXIT_1 == 20
SPRITE_CHECK_EXIT_2 == 30
DISPLAY_TEXT_ID_AFTER_INIT == 40
DISPLAY_TEXT_SETUP_DONE == 50
TEXT_PROCESSOR_NEXT_CHAR_1 == 60
TEXT_PROCESSOR_NEXT_CHAR_2 == 70
TEXT_PROCESSOR_END == 80

Checkpoints ==
    {OVERWORLD_LOOP_START, SPRITE_CHECK_EXIT_1, SPRITE_CHECK_EXIT_2,
     DISPLAY_TEXT_ID_AFTER_INIT, TEXT_PROCESSOR_NEXT_CHAR_1,
     TEXT_PROCESSOR_NEXT_CHAR_2, TEXT_PROCESSOR_END}

(***************************************************************************)
(* Data model (crate common, known here through its uses).                 *)
(***************************************************************************)
Movement(m, x, y, d, w) ==
    [map_id |-> m, map_x |-> x, map_y |-> y, direction |-> d, walk_counter |-> w]

\* PlayerData::new()
NewPlayerData == [id |-> 0, name |-> <<>>, movement_data |-> Movement(0, 0, 0, 0, 0)]

\* PlayerData::check_collision
check_collision(player, x, y) ==
    player.movement_data.map_x = x /\ player.movement_data.map_y = y

Mon(s, l) == [species |-> s, level |-> l]
MkParty(n, a, b) ==
    [num_pokemon |-> n, pokemon |-> <<a, b, Mon(0, 0), Mon(0, 0), Mon(0, 0), Mon(0, 0)>>]

\* extract::player_data: the local player's PlayerData read from engine memory
player_data(m) ==
    [id |-> 0, name |-> m.name,
     movement_data |-> Movement(m.map_id, m.map_x, m.map_y, m.player_dir, m.walk_counter)]

\* extract::player_party: the local party read from engine memory
player_party(m) == m.party

(***************************************************************************)
(* Hook handlers: client/src/interface/mod.rs                              *)
(***************************************************************************)
\* GameData::new()
NewGameData ==
    [game_state |-> "Normal", network_request |-> [kind |-> "None"],
     other_players |-> <<>>, last_interaction |-> 0,
     sprite_id_state |-> "Normal", text_state |-> "Normal",
     current_message |-> <<>>]

Battle(p) == [kind |-> "Battle", id |-> p]

\* Mutant: down and up are taken for each other.
TargetTile_DownUp(m) ==
    IF m.player_dir = 0 THEN [x |-> m.map_x, y |-> (m.map_y + 255) % 256]
    ELSE IF m.player_dir = 4 THEN [x |-> m.map_x, y |-> (m.map_y + 1) % 256]
    ELSE IF m.player_dir = 12 THEN [x |-> (m.map_x + 1) % 256, y |-> m.map_y]
    ELSE [x |-> (m.map_x + 255) % 256, y |-> m.map_y]

\* The tile the player is trying to move into (u8 arithmetic).
TargetTile(m) ==
    IF m.player_dir = 0 THEN [x |-> m.map_x, y |-> (m.map_y + 1) % 256]
    ELSE IF m.player_dir = 4 THEN [x |-> m.map_x, y |-> (m.map_y + 255) % 256]
    ELSE IF m.player_dir = 12 THEN [x |-> (m.map_x + 1) % 256, y |-> m.map_y]
    ELSE [x |-> (m.map_x + 255) % 256, y |-> m.map_y]

\* The table entries the loop of sprite_check_hack can stop at.
Colliding(m, players) ==
    {i \in DOMAIN players :
        /\ players[i].movement_data.map_id = m.map_id
        /\ check_collision(players[i], TargetTile(m).x, TargetTile(m).y)}

\* Mutant: the first checkpoint is not gated on the sprite counter.
SpriteCheckReached_NoGate(c, m) ==
    c.pc \in {SPRITE_CHECK_EXIT_1, SPRITE_CHECK_EXIT_2}

\* The condition under which sprite_check_hack looks for a collision.
SpriteCheckReached(c, m) ==
    \/ c.pc = SPRITE_CHECK_EXIT_1 /\ m.num_sprites = 0
    \/ c.pc = SPRITE_CHECK_EXIT_2

\* Mutant: the reset at the overworld loop is skipped while a peer is in the way.
sprite_check_hack_ResetIfClear(c, m, gd) ==
    LET hits == Colliding(m, gd.other_players)
        gd1 == IF c.pc = OVERWORLD_LOOP_START /\ hits = {}
               THEN [gd EXCEPT !.sprite_id_state = "Normal"] ELSE gd
    IN  IF SpriteCheckReached(c, m) /\ hits # {}
        THEN {[cpu |-> c,
               mem |-> [m EXCEPT !.sprite_index = 255],
               gd |-> [gd1 EXCEPT !.sprite_id_state = "Hacked",
                                  !.last_interaction = i]] : i \in hits}
        ELSE {[cpu |-> c, mem |-> m, gd |-> gd1]}

\* Mutant: the reset at the overworld loop resets the text state as well.
sprite_check_hack_ResetsBoth(c, m, gd) ==
    LET gd1 == IF c.pc = OVERWORLD_LOOP_START
               THEN [gd EXCEPT !.sprite_id_state = "Normal", !.text_state = "Normal"]
               ELSE gd
        hits == Colliding(m, gd.other_players)
    IN  IF SpriteCheckReached(c, m) /\ hits # {}
        THEN {[cpu |-> c,
               mem |-> [m EXCEPT !.sprite_index = 255],
               gd |-> [gd1 EXCEPT !.sprite_id_state = "Hacked",
                                  !.last_interaction = i]] : i \in hits}
        ELSE {[cpu |-> c, mem |-> m, gd |-> gd1]}

\* Mutant: the sentinel is written before the table is searched.
sprite_check_hack_AlwaysSentinel(c, m, gd) ==
    LET gd1 == IF c.pc = OVERWORLD_LOOP_START
               THEN [gd EXCEPT !.sprite_id_state = "Normal"] ELSE gd
        hits == Colliding(m, gd.other_players)
        m1 == IF SpriteCheckReached(c, m) THEN [m EXCEPT !.sprite_index = 255] ELSE m
    IN  IF SpriteCheckReached(c, m) /\ hits # {}
        THEN {[cpu |-> c,
               mem |-> m1,
               gd |-> [gd1 EXCEPT !.sprite_id_state = "Hacked",
                                  !.last_interaction = i]] : i \in hits}
        ELSE {[cpu |-> c, mem |-> m1, gd |-> gd1]}

\* sprite_check_hack: the set of results, one per entry the HashMap iteration
\* may meet first.
sprite_check_hack(c, m, gd) ==
    LET gd1 == IF c.pc = OVERWORLD_LOOP_START
               THEN [gd EXCEPT !.sprite_id_state = "Normal"] ELSE gd
        hits == Colliding(m, gd.other_players)
    IN  IF SpriteCheckReached(c, m) /\ hits # {}
        THEN {[cpu |-> c,
               mem |-> [m EXCEPT !.sprite_index = 255],
               gd |-> [gd1 EXCEPT !.sprite_id_state = "Hacked",
                                  !.last_interaction = i]] : i \in hits}
        ELSE {[cpu |-> c, mem |-> m, gd |-> gd1]}

\* Mutant: the interception forgets to queue the battle request.
display_text_hack_NoRequest(c, m, gd) ==
    LET hit == gd.sprite_id_state = "Hacked" /\ c.pc = DISPLAY_TEXT_ID_AFTER_INIT
        gd1 == IF hit
               THEN [gd EXCEPT !.text_state = "Hacked",
                               !.current_message = create_message_box(@, NothingToSay),
                               !.game_state = "Waiting"]
               ELSE gd
        gd3 == IF c.pc = TEXT_PROCESSOR_END
               THEN [gd1 EXCEPT !.text_state = "Normal"] ELSE gd1
    IN  [cpu |-> IF hit THEN [c EXCEPT !.pc = DISPLAY_TEXT_SETUP_DONE] ELSE c,
         mem |-> IF hit THEN [m EXCEPT !.frame_counter = 30] ELSE m,
         gd |-> gd3]

\* Mutant: the text interception does not look at sprite_id_state.
display_text_hack_AnySprite(c, m, gd) ==
    LET hit == c.pc = DISPLAY_TEXT_ID_AFTER_INIT
        c1 == IF hit THEN [c EXCEPT !.pc = DISPLAY_TEXT_SETUP_DONE] ELSE c
        m1 == IF hit THEN [m EXCEPT !.frame_counter = 30] ELSE m
        gd1 == IF hit
               THEN [gd EXCEPT !.text_state = "Hacked",
                               !.current_message = create_message_box(@, NothingToSay),
                               !.network_request = Battle(gd.last_interaction),
                               !.game_state = "Waiting"]
               ELSE gd
        pop == gd1.text_state = "Hacked"
               /\ c1.pc \in {TEXT_PROCESSOR_NEXT_CHAR_1, TEXT_PROCESSOR_NEXT_CHAR_2}
        c2 == IF pop
              THEN [pc |-> c1.pc + 1,
                    a |-> IF gd1.current_message = <<>> THEN TERMINATOR
                          ELSE Head(gd1.current_message)]
              ELSE c1
        gd2 == IF pop /\ gd1.current_message # <<>>
               THEN [gd1 EXCEPT !.current_message = Tail(@)] ELSE gd1
        gd3 == IF c2.pc = TEXT_PROCESSOR_END
               THEN [gd2 EXCEPT !.text_state = "Normal"] ELSE gd2
    IN  [cpu |-> c2, mem |-> m1, gd |-> gd3]

\* Mutant: the front byte is read but left in the queue.
next_char_Peek(c, gd) ==
    IF gd.text_state = "Hacked"
       /\ c.pc \in {TEXT_PROCESSOR_NEXT_CHAR_1, TEXT_PROCESSOR_NEXT_CHAR_2}
    THEN [cpu |-> [pc |-> c.pc + 1,
                   a |-> IF gd.current_message = <<>> THEN TERMINATOR
                         ELSE Head(gd.current_message)],
          gd |-> gd]
    ELSE [cpu |-> c, gd |-> gd]

\* The second conditional of display_text_hack:
\* cpu.a = current_message.pop_front().unwrap_or(TERMINATOR); cpu.pc += 1.
next_char(c, gd) ==
    IF gd.text_state = "Hacked"
       /\ c.pc \in {TEXT_PROCESSOR_NEXT_CHAR_1, TEXT_PROCESSOR_NEXT_CHAR_2}
    THEN [cpu |-> [pc |-> (c.pc + 1) % 65536,
                   a |-> IF gd.current_message = <<>> THEN TERMINATOR
                         ELSE Head(gd.current_message)],
          gd |-> IF gd.current_message = <<>> THEN gd
                 ELSE [gd EXCEPT !.current_message = Tail(@)]]
    ELSE [cpu |-> c, gd |-> gd]

\* display_text_hack, its three conditionals in order.
display_text_hack(c, m, gd) ==
    LET hit == gd.sprite_id_state = "Hacked" /\ c.pc = DISPLAY_TEXT_ID_AFTER_INIT
        c1 == IF hit THEN [c EXCEPT !.pc = DISPLAY_TEXT_SETUP_DONE] ELSE c
        m1 == IF hit THEN [m EXCEPT !.frame_counter = 30] ELSE m
        gd1 == IF hit
               THEN [gd EXCEPT !.text_state = "Hacked",
                               !.current_message = create_message_box(@, NothingToSay),
                               !.network_request = Battle(gd.last_interaction),
                               !.game_state = "Waiting"]
               ELSE gd
        n == next_char(c1, gd1)
        gd3 == IF n.cpu.pc = TEXT_PROCESSOR_END
               THEN [n.gd EXCEPT !.text_state = "Normal"] ELSE n.gd
    IN  [cpu |-> n.cpu, mem |-> m1, gd |-> gd3]

\* load_party: the trainer data written over Prof. Oak's in the cartridge ROM.
RECURSIVE PartyBytes(_, _)
PartyBytes(mons, n) ==
    IF n = 0 \/ mons = <<>> THEN <<>>
    ELSE <<Head(mons).level, Head(mons).species>> \o PartyBytes(Tail(mons), n - 1)

load_party(party, m) ==
    LET bytes == <<255>> \o PartyBytes(party.pokemon, party.num_pokemon) \o <<0>>
    IN  [m EXCEPT !.oak = [k \in DOMAIN m.oak |->
                              IF k <= Len(bytes) THEN bytes[k] ELSE m.oak[k]]]

\* set_battle
set_battle(m, party) ==
    load_party(party,
        [m EXCEPT !.battle = [battle_type |-> "Normal", active_battle |-> "Trainer",
                              trainer_num |-> 1, current_opponent |-> "ProfOak"]])

(***************************************************************************)
(* Protocol: client/src/net.rs                                             *)
(***************************************************************************)
PlayerJoin(i) == [type |-> "PlayerJoin", id |-> i]
FullUpdate(i, d) == [type |-> "FullUpdate", id |-> i, data |-> d]
MovementUpdate(i, mv) == [type |-> "MovementUpdate", id |-> i, data |-> mv]
PlayerQuit(i) == [type |-> "PlayerQuit", id |-> i]
Chat(i, msg) == [type |-> "Chat", id |-> i, msg |-> msg]
BattleDataRequest(to, from) == [type |-> "BattleDataRequest", to |-> to, from |-> from]
BattleDataResponse(to, party) == [type |-> "BattleDataResponse", to |-> to, party |-> party]
UpdateRequest == [type |-> "UpdateRequest"]

\* A line of the stream: the JSON text of an event, or text json::decode rejects.
Line(ev) == [json |-> TRUE, ev |-> ev]
Garbage == [json |-> FALSE]
NoLine == [none |-> TRUE]

\* No pure function is being evaluated.
NoEval == [fn |-> "none"]
\* No second session is modelled.
NoPeer == [id |-> 0]

\* Mutant: an entry already present is kept (entry().or_insert).
Insert_IfAbsent(players, i, d) ==
    [k \in DOMAIN players \cup {i} |-> IF k \in DOMAIN players THEN players[k] ELSE d]

\* HashMap::insert / HashMap::remove
Insert(players, i, d) ==
    [k \in DOMAIN players \cup {i} |-> IF k = i THEN d ELSE players[k]]
Remove(players, i) == [k \in DOMAIN players \ {i} |-> players[k]]

\* Mutant: a MovementUpdate for an unknown id creates an entry.
apply_movement_Upsert(players, i, mv) ==
    [k \in DOMAIN players \cup {i} |->
        IF k = i
        THEN IF i \in DOMAIN players THEN [players[i] EXCEPT !.movement_data = mv]
             ELSE [NewPlayerData EXCEPT !.movement_data = mv]
        ELSE players[k]]

\* The MovementUpdate arm of recv_update: get_mut(&id), then the assignment.
apply_movement(players, i, mv) ==
    IF i \in DOMAIN players
    THEN [players EXCEPT ![i].movement_data = mv]
    ELSE players

\* Mutant: the new state is stored without raising the flag.
update_player_data_NoFlag(ls, nu, data) ==
    IF ls # data THEN [last_state |-> data, new_update |-> nu]
    ELSE [last_state |-> ls, new_update |-> nu]

\* ClientDataManager::update_player_data
update_player_data(ls, nu, data) ==
    IF ls # data THEN [last_state |-> data, new_update |-> TRUE]
    ELSE [last_state |-> ls, new_update |-> nu]

\* Mutant: the request is left pending after it is sent.
send_update_KeepRequest(self, ls, nu, gd, q) ==
    LET q1 == IF nu THEN Append(q, FullUpdate(self, ls)) ELSE q
        q2 == IF gd.network_request.kind = "Battle"
              THEN Append(q1, BattleDataRequest(gd.network_request.id, self))
              ELSE q1
    IN  [local_q |-> q2, new_update |-> FALSE, gd |-> gd]

\* ClientDataManager::send_update
send_update(self, ls, nu, gd, q) ==
    LET q1 == IF nu THEN Append(q, FullUpdate(self, ls)) ELSE q
        q2 == IF gd.network_request.kind = "Battle"
              THEN Append(q1, BattleDataRequest(gd.network_request.id, self))
              ELSE q1
    IN  [local_q |-> q2, new_update |-> FALSE,
         gd |-> [gd EXCEPT !.network_request = [kind |-> "None"]]]

\* Mutant: the response goes to the request's first field, not its second.
recv_event_ReplyToTarget(ev, self, ls, gd, m, q) ==
    LET same == [gd |-> gd, mem |-> m, local_q |-> q, panic |-> FALSE]
    IN  CASE ev.type = "FullUpdate" ->
                [same EXCEPT !.gd.other_players = Insert(@, ev.id, ev.data)]
          [] ev.type = "BattleDataRequest" ->
                [same EXCEPT !.local_q =
                    Append(q, BattleDataResponse(ev.to, player_party(m)))]
          [] ev.type = "BattleDataResponse" ->
                [same EXCEPT !.gd.game_state = "Normal",
                             !.mem = set_battle(m, ev.party)]
          [] OTHER -> same

\* Mutant: a session that is Waiting leaves a battle request unanswered.
recv_event_BusyWhileWaiting(ev, self, ls, gd, m, q) ==
    LET same == [gd |-> gd, mem |-> m, local_q |-> q, panic |-> FALSE]
    IN  CASE ev.type = "FullUpdate" ->
                [same EXCEPT !.gd.other_players = Insert(@, ev.id, ev.data)]
          [] ev.type = "MovementUpdate" ->
                [same EXCEPT !.gd.other_players = apply_movement(@, ev.id, ev.data)]
          [] ev.type = "PlayerQuit" ->
                [same EXCEPT !.gd.other_players = Remove(@, ev.id)]
          [] ev.type = "BattleDataRequest" ->
                IF gd.game_state = "Waiting" THEN same
                ELSE [same EXCEPT !.local_q =
                         Append(q, BattleDataResponse(ev.from, player_party(m)))]
          [] ev.type = "BattleDataResponse" ->
                [same EXCEPT !.gd.game_state = "Normal",
                             !.mem = set_battle(m, ev.party)]
          [] ev.type = "UpdateRequest" ->
                [same EXCEPT !.local_q = Append(q, FullUpdate(self, ls))]
          [] ev.type = "Chat" -> same
          [] OTHER -> [same EXCEPT !.panic = TRUE]

\* One turn of the loop of ClientDataManager::recv_update on a dequeued event.
recv_event(ev, self, ls, gd, m, q) ==
    LET same == [gd |-> gd, mem |-> m, local_q |-> q, panic |-> FALSE]
    IN  CASE ev.type = "FullUpdate" ->
                [same EXCEPT !.gd.other_players = Insert(@, ev.id, ev.data)]
          [] ev.type = "MovementUpdate" ->
                [same EXCEPT !.gd.other_players = apply_movement(@, ev.id, ev.data)]
          [] ev.type = "PlayerQuit" ->
                [same EXCEPT !.gd.other_players = Remove(@, ev.id)]
          [] ev.type = "BattleDataRequest" ->
                [same EXCEPT !.local_q =
                    Append(q, BattleDataResponse(ev.from, player_party(m)))]
          [] ev.type = "BattleDataResponse" ->
                [same EXCEPT !.gd.game_state = "Normal",
                             !.mem = set_battle(m, ev.party)]
          [] ev.type = "UpdateRequest" ->
                [same EXCEPT !.local_q = Append(q, FullUpdate(self, ls))]
          [] ev.type = "Chat" -> same
          [] OTHER -> [same EXCEPT !.panic = TRUE]

\* The PlayerData of the last FullUpdate in q, or prev when q holds none.
RECURSIVE LastFullUpdate(_, _)
LastFullUpdate(q, prev) ==
    IF q = <<>> THEN prev
    ELSE LastFullUpdate(Tail(q),
                        IF Head(q).type = "FullUpdate" THEN Head(q).data ELSE prev)

(***************************************************************************)
(* Actions                                                                 *)
(***************************************************************************)
netVars == <<conn, join_line, err, id, reader, writer>>
engVars == <<cpu, mem>>
syncVars == <<last_state, new_update, last_broadcast>>

\* Mutant: any line that decodes is taken for the join.
Handshake_AnyEvent(line) ==
    /\ conn = "connecting"
    /\ join_line' = line
    /\ IF line.json
       THEN /\ conn' = "up"
            /\ id' = IF line.ev.type = "PlayerJoin" THEN line.ev.id ELSE 0
            /\ reader' = "running"
            /\ writer' = "running"
            /\ dpc' = "emu"
            /\ err' = err
       ELSE /\ conn' = "failed"
            /\ err' = "DecodeError"
            /\ UNCHANGED <<id, reader, writer, dpc>>
    /\ UNCHANGED <<global_q, local_q, game_data, cpu, mem, syncVars>>
    /\ UNCHANGED <<eval, peer>>

\* handle_network up to the spawning of the two threads; main unwraps the result.
Handshake(line) ==
    /\ conn = "connecting"
    /\ join_line' = line
    /\ IF line.json /\ line.ev.type = "PlayerJoin"
       THEN /\ conn' = "up"
            /\ id' = line.ev.id
            /\ reader' = "running"
            /\ writer' = "running"
            /\ dpc' = "emu"
            /\ err' = err
       ELSE /\ conn' = "failed"
            /\ err' = "DecodeError"
            /\ UNCHANGED <<id, reader, writer, dpc>>
    /\ UNCHANGED <<global_q, local_q, game_data, cpu, mem, syncVars>>
    /\ UNCHANGED <<eval, peer>>

\* read_line fails before any line arrives: try! returns the I/O error.
HandshakeReadError ==
    /\ conn = "connecting"
    /\ conn' = "failed"
    /\ err' = "IoError"
    /\ UNCHANGED <<join_line, id, reader, writer, dpc, global_q, local_q, game_data, cpu, mem,
                   syncVars>>
    /\ UNCHANGED <<eval, peer>>

\* Mutant: the inbound thread applies a FullUpdate to the table itself.
ReaderLine_Direct(line) ==
    /\ reader = "running"
    /\ IF line.json
       THEN /\ Len(global_q) < MaxGlobalQ
            /\ global_q' = Append(global_q, line.ev)
            /\ reader' = reader
            /\ game_data' = IF line.ev.type = "FullUpdate"
                            THEN [game_data EXCEPT !.other_players =
                                      Insert(@, line.ev.id, line.ev.data)]
                            ELSE game_data
       ELSE /\ reader' = "panicked"
            /\ global_q' = global_q
            /\ game_data' = game_data
    /\ UNCHANGED <<conn, join_line, err, id, writer, local_q, cpu, mem,
                   syncVars, dpc>>
    /\ UNCHANGED <<eval, peer>>

\* Inbound thread: one line read, decoded and sent to the driver.
ReaderLine(line) ==
    /\ reader = "running"
    /\ IF line.json
       THEN /\ Len(global_q) < MaxGlobalQ
            /\ global_q' = Append(global_q, line.ev)
            /\ reader' = reader
       ELSE /\ reader' = "panicked"
            /\ global_q' = global_q
    /\ UNCHANGED <<conn, join_line, err, id, writer, local_q, game_data, cpu, mem,
                   syncVars, dpc>>
    /\ UNCHANGED <<eval, peer>>

\* Inbound thread: read_line fails, the loop breaks.
ReaderError ==
    /\ reader = "running"
    /\ reader' = "stopped"
    /\ UNCHANGED <<conn, join_line, err, id, writer, global_q, local_q, game_data,
                   cpu, mem, syncVars, dpc>>
    /\ UNCHANGED <<eval, peer>>

\* Outbound thread: one event received from the channel and written; the
\* result of the write is dropped.
WriterSend ==
    /\ writer = "running"
    /\ local_q # <<>>
    /\ local_q' = Tail(local_q)
    /\ UNCHANGED <<netVars, global_q, game_data, cpu, mem, syncVars, dpc>>
    /\ UNCHANGED <<eval, peer>>

\* Mutant: a failed write ends the outbound thread (try! in place of let _).
WriterSendFails_Stops ==
    /\ writer = "running"
    /\ local_q # <<>>
    /\ local_q' = Tail(local_q)
    /\ writer' = "stopped"
    /\ UNCHANGED <<conn, join_line, err, id, reader, global_q, game_data, cpu, mem,
                   syncVars, dpc>>
    /\ UNCHANGED <<eval, peer>>

\* Outbound thread: one event received from the channel; write_str or
\* write_char returns an error, which let _ drops.
WriterSendFails ==
    /\ writer = "running"
    /\ local_q # <<>>
    /\ local_q' = Tail(local_q)
    /\ UNCHANGED <<netVars, global_q, game_data, cpu, mem, syncVars, dpc>>
    /\ UNCHANGED <<eval, peer>>

\* run: the emulator timer has not elapsed.
EmuIdle ==
    /\ dpc = "emu"
    /\ dpc' = "net"
    /\ UNCHANGED <<netVars, global_q, local_q, game_data, cpu, mem, syncVars>>
    /\ UNCHANGED <<eval, peer>>

\* Mutant: the frame runs whatever game_state is.
EmuTick_NoGate ==
    /\ dpc = "emu"
    /\ dpc' = "exec"
    /\ UNCHANGED <<netVars, global_q, local_q, game_data, cpu, mem, syncVars>>
    /\ UNCHANGED <<eval, peer>>

\* run: the emulator timer elapsed; game_ready decides whether a frame runs.
EmuTick ==
    /\ dpc = "emu"
    /\ dpc' = IF game_data.game_state = "Normal" THEN "exec" ELSE "net"
    /\ UNCHANGED <<netVars, global_q, local_q, game_data, cpu, mem, syncVars>>
    /\ UNCHANGED <<eval, peer>>

\* emulator.frame(): the engine executes up to its next instruction boundary.
\* w holds the cells the engine itself writes.
CpuStep(pcIn, w) ==
    /\ dpc = "exec"
    /\ \/ pcIn # DISPLAY_TEXT_ID_AFTER_INIT
       \/ game_data.sprite_id_state # "Hacked"
       \/ Len(game_data.current_message) < MaxPending * FramedLen
    /\ cpu' = [cpu EXCEPT !.pc = pcIn]
    /\ mem' = [mem EXCEPT !.map_id = w.map_id, !.map_x = w.map_x, !.map_y = w.map_y,
                          !.player_dir = w.player_dir, !.num_sprites = w.num_sprites,
                          !.walk_counter = w.walk_counter, !.party = w.party]
    /\ dpc' = "hook"
    /\ UNCHANGED <<netVars, global_q, local_q, game_data, syncVars>>
    /\ UNCHANGED <<eval, peer>>

\* The hook closure of the emulator: both handlers on the same step.
HookStep ==
    /\ dpc = "hook"
    /\ \E r \in sprite_check_hack(cpu, mem, game_data) :
          LET t == display_text_hack(r.cpu, r.mem, r.gd)
          IN  /\ cpu' = t.cpu
              /\ mem' = t.mem
              /\ game_data' = t.gd
    /\ dpc' = "exec"
    /\ UNCHANGED <<netVars, global_q, local_q, syncVars>>
    /\ UNCHANGED <<eval, peer>>

\* The frame is over: data.update_player_data(extract::player_data(&mem)).
FrameEnd ==
    /\ dpc = "exec"
    /\ LET u == update_player_data(last_state, new_update, player_data(mem))
       IN  /\ last_state' = u.last_state
           /\ new_update' = u.new_update
    /\ dpc' = "net"
    /\ UNCHANGED <<netVars, global_q, local_q, game_data, cpu, mem, last_broadcast>>
    /\ UNCHANGED <<eval, peer>>

\* run: the network timer has not elapsed.
NetIdle ==
    /\ dpc = "net"
    /\ dpc' = "emu"
    /\ UNCHANGED <<netVars, global_q, local_q, game_data, cpu, mem, syncVars>>
    /\ UNCHANGED <<eval, peer>>

\* run: the network timer elapsed: data.send_update().
SendUpdate ==
    /\ dpc = "net"
    /\ LET s == send_update(id, last_state, new_update, game_data, local_q)
       IN  /\ Len(local_q) <= MaxLocalQ
           /\ local_q' = s.local_q
           /\ new_update' = s.new_update
           /\ game_data' = s.gd
           /\ last_broadcast' =
                  LastFullUpdate(SubSeq(s.local_q, Len(local_q) + 1, Len(s.local_q)),
                                 last_broadcast)
    /\ last_state' = last_state
    /\ dpc' = "recv"
    /\ UNCHANGED <<netVars, global_q, cpu, mem>>
    /\ UNCHANGED <<eval, peer>>

\* data.recv_update(): try_recv yields an event.
RecvEvent ==
    /\ dpc = "recv"
    /\ global_q # <<>>
    /\ LET r == recv_event(Head(global_q), id, last_state, game_data, mem, local_q)
       IN  /\ Len(local_q) <= MaxLocalQ
           /\ game_data' = r.gd
           /\ mem' = r.mem
           /\ local_q' = r.local_q
           /\ dpc' = IF r.panic THEN "panic" ELSE "recv"
           /\ last_broadcast' =
                  LastFullUpdate(SubSeq(r.local_q, Len(local_q) + 1, Len(r.local_q)),
                                 last_broadcast)
    /\ global_q' = Tail(global_q)
    /\ UNCHANGED <<netVars, cpu, last_state, new_update>>
    /\ UNCHANGED <<eval, peer>>

\* data.recv_update(): try_recv finds the channel empty, the loop breaks.
RecvDone ==
    /\ dpc = "recv"
    /\ global_q = <<>>
    /\ dpc' = "emu"
    /\ UNCHANGED <<netVars, global_q, local_q, game_data, cpu, mem, syncVars>>
    /\ UNCHANGED <<eval, peer>>

\* handle_keyboard_chat on Return: ClientDataManager::send_message.
SendMessage(msg) ==
    /\ dpc = "emu"
    /\ Len(local_q) <= MaxLocalQ
    /\ local_q' = Append(local_q, Chat(id, msg))
    /\ UNCHANGED <<netVars, global_q, game_data, cpu, mem, syncVars, dpc>>
    /\ UNCHANGED <<eval, peer>>

(***************************************************************************)
(* Inputs                                                                  *)
(***************************************************************************)
PartyA == MkParty(1, Mon(25, 5), Mon(0, 0))
PartyB == MkParty(2, Mon(7, 9), Mon(4, 3))

LocalName == <<145, 132, 131>>      \* "RED"
PeerName == <<129, 139, 148, 132>>  \* "BLUE"

\* A remote player standing on tile (x, y) of map m.
PeerAt(p, m, x, y) ==
    [id |-> p, name |-> PeerName, movement_data |-> Movement(m, x, y, 0, 0)]

\* Cells the engine writes: the local player on tile (x, y) of map 0.
Cells(x, y, dir, sprites, party) ==
    [map_id |-> 0, map_x |-> x, map_y |-> y, player_dir |-> dir,
     num_sprites |-> sprites, walk_counter |-> 0, party |-> party]

\* Memory after emulator.start(): on tile (1, 1) facing right, no battle set up.
InitMem ==
    [map_id |-> 0, map_x |-> 1, map_y |-> 1, player_dir |-> 12, num_sprites |-> 0,
     walk_counter |-> 0, party |-> PartyA, name |-> LocalName,
     sprite_index |-> 0, frame_counter |-> 0,
     battle |-> [battle_type |-> "none", active_battle |-> "none",
                 trainer_num |-> 0, current_opponent |-> "none"],
     oak |-> [k \in 1..14 |-> 0]]

\* An address that is no checkpoint.
Elsewhere == {256}

(***************************************************************************)
(* Spec: the battle flow of one session among two peers.  The local player *)
(* stands on (1, 1) facing right; a peer's FullUpdate puts it on (2, 1).   *)
(***************************************************************************)
SessionPCs ==
    {OVERWORLD_LOOP_START, SPRITE_CHECK_EXIT_2, DISPLAY_TEXT_ID_AFTER_INIT,
     TEXT_PROCESSOR_END} \cup Elsewhere
SessionCells == {Cells(1, 1, 12, 0, PartyA)}
SessionLines ==
    {Line(FullUpdate(p, PeerAt(p, 0, 2, 1))) : p \in PeerIds}
    \cup {Line(BattleDataRequest(LocalId, p)) : p \in PeerIds}
    \cup {Line(BattleDataResponse(LocalId, PartyB))}
HandshakeLines ==
    {Line(PlayerJoin(LocalId)), Line(UpdateRequest), Garbage}

\* main before handle_network returns.
Init ==
    /\ conn = "connecting"
    /\ join_line = NoLine
    /\ err = "none"
    /\ id = 0
    /\ reader = "none"
    /\ writer = "none"
    /\ global_q = <<>>
    /\ local_q = <<>>
    /\ game_data = NewGameData
    /\ cpu = [pc |-> 0, a |-> 0]
    /\ mem = InitMem
    /\ last_state = NewPlayerData
    /\ new_update = FALSE
    /\ dpc = "main"
    /\ last_broadcast = NewPlayerData
    /\ eval = NoEval
    /\ peer = NoPeer

Next ==
    \/ \E line \in HandshakeLines : Handshake(line)
    \/ HandshakeReadError
    \/ \E line \in SessionLines : ReaderLine(line)
    \/ WriterSend
    \/ EmuIdle
    \/ EmuTick
    \/ \E pcIn \in SessionPCs, w \in SessionCells : CpuStep(pcIn, w)
    \/ HookStep
    \/ FrameEnd
    \/ NetIdle
    \/ SendUpdate
    \/ RecvEvent
    \/ RecvDone

Spec == Init /\ [][Next]_vars

(***************************************************************************)
(* Claims checked under Spec                                               *)
(***************************************************************************)
Waiting == game_data.game_state = "Waiting"
InFrame(pos) == pos \in {"exec", "hook"}

\* The events a step appended to the local_update channel (a step either
\* appends or removes the head, never both).
Enqueued ==
    IF Len(local_q') > Len(local_q)
    THEN SubSeq(local_q', Len(local_q) + 1, Len(local_q'))
    ELSE <<>>
OfType(q, t) == SelectSeq(q, LAMBDA e : e.type = t)

\* A step of the inbound pass that applies the event ev.
Applies(t) ==
    /\ dpc = "recv"
    /\ global_q # <<>>
    /\ Head(global_q).type = t
    /\ global_q' = Tail(global_q)
\* The outbound pass.
OutboundPass == dpc = "net" /\ dpc' = "recv"

\* C1: a driver iteration that starts in Waiting runs no engine frame and no
\* update of the local PlayerData (a frame starts only at the top of an
\* iteration in Normal, and only a frame moves the engine or last_state), and
\* Waiting turns back into Normal only when the inbound pass applies a
\* BattleDataResponse.
C1_WaitingBlocksEngine ==
    [][/\ (dpc = "emu" /\ Waiting) =>
              /\ dpc' \in {"emu", "net"}
              /\ cpu' = cpu /\ mem' = mem
              /\ last_state' = last_state /\ new_update' = new_update
       /\ (~InFrame(dpc) /\ InFrame(dpc')) => (dpc = "emu" /\ ~Waiting)
       /\ (cpu' # cpu \/ last_state' # last_state) => InFrame(dpc)
       /\ (Waiting /\ game_data'.game_state = "Normal") => Applies("BattleDataResponse")
      ]_vars

\* Witness of C1: an iteration that started in Waiting (the request is already
\* sent) has passed the emulator block.
C1_Witness ==
    /\ Waiting
    /\ dpc = "net"
    /\ game_data.network_request.kind = "None"
    /\ game_data.text_state = "Hacked"

\* The tile one step from the local player in its facing direction
\* (0 down, 4 up, 12 right, any other value left; coordinates are bytes).
FacingTile ==
    CASE mem.player_dir = 0 -> <<mem.map_x, (mem.map_y + 1) % 256>>
      [] mem.player_dir = 4 -> <<mem.map_x, (mem.map_y - 1) % 256>>
      [] mem.player_dir = 12 -> <<(mem.map_x + 1) % 256, mem.map_y>>
      [] OTHER -> <<(mem.map_x - 1) % 256, mem.map_y>>
\* The peers of the PlayerTable standing on that tile of the local player's map.
Occupants ==
    {p \in DOMAIN game_data.other_players :
        LET mv == game_data.other_players[p].movement_data
        IN  mv.map_id = mem.map_id /\ <<mv.map_x, mv.map_y>> = FacingTile}
\* The step runs the hook handlers.
HooksRun == dpc = "hook" /\ dpc' = "exec"
\* The hooks run at a sprite-check checkpoint that is in force.
AtSpriteCheck ==
    /\ HooksRun
    /\ \/ cpu.pc = SPRITE_CHECK_EXIT_2
       \/ cpu.pc = SPRITE_CHECK_EXIT_1 /\ mem.num_sprites = 0
\* The hooks run at the post-dialogue-init checkpoint after a sprite interception.
AtTextCheck ==
    /\ HooksRun
    /\ cpu.pc = DISPLAY_TEXT_ID_AFTER_INIT
    /\ game_data.sprite_id_state = "Hacked"
SpriteHacked(gd) == gd.sprite_id_state = "Hacked"

\* What load_party leaves in the trainer data for party.
PartyLoaded(m, party) ==
    LET n == IF party.num_pokemon < Len(party.pokemon)
             THEN party.num_pokemon ELSE Len(party.pokemon)
    IN  /\ m.battle.active_battle = "Trainer"
        /\ m.oak[1] = 255
        /\ \A k \in 1..n :
              /\ m.oak[2 * k] = party.pokemon[k].level
              /\ m.oak[2 * k + 1] = party.pokemon[k].species
        /\ m.oak[2 * n + 2] = 0

\* The links of the battle flow after the sprite interception, and their order.
C2_Links ==
    /\ AtTextCheck =>
          /\ game_data'.text_state = "Hacked"
          /\ game_data'.network_request = Battle(game_data.last_interaction)
          /\ game_data'.game_state = "Waiting"
    /\ (OutboundPass /\ game_data.network_request.kind = "Battle") =>
          OfType(Enqueued, "BattleDataRequest")
              = <<BattleDataRequest(game_data.network_request.id, id)>>
    /\ Applies("BattleDataResponse") =>
          /\ game_data'.game_state = "Normal"
          /\ PartyLoaded(mem', Head(global_q).party)
    \* none is skipped
    /\ (~SpriteHacked(game_data) /\ SpriteHacked(game_data')) =>
          (AtSpriteCheck /\ Occupants # {})
    /\ (~Waiting /\ game_data'.game_state = "Waiting") => AtTextCheck
    /\ OfType(Enqueued, "BattleDataRequest") # <<>> =>
          (OutboundPass /\ game_data.network_request.kind = "Battle")
    /\ (Waiting /\ game_data'.game_state = "Normal") => Applies("BattleDataResponse")
\* The request is sent before a response can end the wait.
C2_RequestWhileWaiting == game_data.network_request.kind = "Battle" => Waiting

\* C2 as claimed: moving into a tile occupied by p records p, for any such p;
\* then the text checkpoint requests the battle and enters Waiting, the next
\* outbound pass sends BattleDataRequest(p, localId), and a
\* BattleDataResponse returns to Normal and loads its party; in this order.
C2_AsClaimed ==
    /\ [][/\ AtSpriteCheck =>
                \A p \in Occupants :
                    SpriteHacked(game_data') /\ game_data'.last_interaction = p
          /\ C2_Links]_vars
    /\ []C2_RequestWhileWaiting

\* C2 amended: the sprite interception records one of the peers on the tile
\* (p itself when p is alone on it); the rest as claimed, with that peer.
C2_EndToEnd ==
    /\ [][/\ (AtSpriteCheck /\ Occupants # {}) =>
                /\ SpriteHacked(game_data')
                /\ game_data'.last_interaction \in Occupants
          /\ C2_Links]_vars
    /\ []C2_RequestWhileWaiting

\* Witness of C2: the whole flow has run: sprite and text interception, the
\* request sent, and a response applied after it.
C2_Witness ==
    /\ game_data.game_state = "Normal"
    /\ game_data.network_request.kind = "None"
    /\ game_data.text_state = "Hacked"
    /\ mem.sprite_index = 255
    /\ mem.frame_counter = 30
    /\ PartyLoaded(mem, PartyB)
    /\ game_data.last_interaction \in PeerIds

\* C4: an outbound pass that finds Battle(p) pending enqueues exactly one
\* BattleDataRequest, BattleDataRequest(p, localId), one that finds none
\* pending enqueues none, and either way the request is None afterwards;
\* until that pass a pending request stays pending.
C4_BattleRequestSentOnce ==
    [][/\ OutboundPass =>
              /\ game_data.network_request.kind = "Battle" =>
                    OfType(Enqueued, "BattleDataRequest")
                        = <<BattleDataRequest(game_data.network_request.id, id)>>
              /\ game_data.network_request.kind = "None" =>
                    OfType(Enqueued, "BattleDataRequest") = <<>>
              /\ game_data'.network_request = [kind |-> "None"]
       /\ (game_data.network_request.kind = "Battle" /\ ~OutboundPass) =>
              game_data'.network_request.kind = "Battle"
      ]_vars

\* Witness of C4: the outbound pass has just sent the request of an
\* interception and cleared it.
C4_Witness ==
    /\ dpc = "recv"
    /\ Waiting
    /\ game_data.network_request.kind = "None"
    /\ OfType(local_q, "BattleDataRequest")
           = <<BattleDataRequest(game_data.last_interaction, id)>>

\* C8: applying BattleDataRequest(_, requester) enqueues exactly one event,
\* BattleDataResponse(requester, the local party), whatever the SessionPhase,
\* and changes neither the PlayerTable nor the SessionPhase.
C8_BattleRequestAnswered ==
    [][Applies("BattleDataRequest") =>
          /\ Enqueued = <<BattleDataResponse(Head(global_q).from, mem.party)>>
          /\ game_data'.other_players = game_data.other_players
          /\ game_data'.game_state = game_data.game_state
      ]_vars

\* Witness of C8: a request was answered during this inbound pass while the
\* session is Waiting.
C8_Witness ==
    /\ dpc = "recv"
    /\ Waiting
    /\ \E p \in PeerIds : OfType(local_q, "BattleDataResponse")
                              = <<BattleDataResponse(p, mem.party)>>

(***************************************************************************)
(* SpecHook: the hook handlers inside one frame.  The session is up, the   *)
(* PlayerTable holds what earlier inbound passes left in it, and the       *)
(* engine steps through arbitrary checkpoints with the local player on     *)
(* (1, 1) or on (0, 0), where a step up or left wraps around the byte.     *)
(* The next-character checkpoints are left to the text specification.      *)
(***************************************************************************)
TableOf(players) == [p \in {q.id : q \in players} |->
                        CHOOSE q \in players : q.id = p]
HookTables ==
    {<<>>,
     TableOf({PeerAt(1, 0, 2, 1)}),
     TableOf({PeerAt(1, 0, 2, 1), PeerAt(2, 0, 2, 1)}),
     TableOf({PeerAt(1, 1, 2, 1), PeerAt(2, 0, 0, 1)}),
     TableOf({PeerAt(1, 0, 0, 255), PeerAt(2, 0, 255, 0)}),
     TableOf({PeerAt(1, 0, 1, 0), PeerAt(2, 0, 1, 2)})}
HookPCs ==
    {OVERWORLD_LOOP_START, SPRITE_CHECK_EXIT_1, SPRITE_CHECK_EXIT_2,
     DISPLAY_TEXT_ID_AFTER_INIT, DISPLAY_TEXT_SETUP_DONE, TEXT_PROCESSOR_END}
    \cup Elsewhere
HookCells ==
    {Cells(xy[1], xy[2], dir, n, PartyA) :
        xy \in {<<1, 1>>, <<0, 0>>}, dir \in {0, 4, 8, 12}, n \in {0, 1}}

\* run inside emulator.frame(), the handshake and some inbound passes done.
InitHook ==
    /\ conn = "up"
    /\ join_line = Line(PlayerJoin(LocalId))
    /\ err = "none"
    /\ id = LocalId
    /\ reader = "running"
    /\ writer = "running"
    /\ global_q = <<>>
    /\ local_q = <<>>
    /\ \E t \in HookTables : game_data = [NewGameData EXCEPT !.other_players = t]
    /\ cpu = [pc |-> 0, a |-> 0]
    /\ mem = InitMem
    /\ last_state = NewPlayerData
    /\ new_update = FALSE
    /\ dpc = "exec"
    /\ last_broadcast = NewPlayerData
    /\ eval = NoEval
    /\ peer = NoPeer

NextHook ==
    \/ \E pcIn \in HookPCs, w \in HookCells : CpuStep(pcIn, w)
    \/ HookStep

SpecHook == InitHook /\ [][NextHook]_vars

(***************************************************************************)
(* Claims checked under SpecHook                                           *)
(***************************************************************************)
\* C9: sprite_state turns from Normal to Hacked only in a step of the hooks
\* whose pc is SPRITE_CHECK_EXIT_2, or SPRITE_CHECK_EXIT_1 with the sprite
\* counter zero, and in which some PlayerTable entry stands, on the local
\* player's map, on the tile one step from the player in its facing
\* direction; that step sets the sprite-index byte to 0xFF and
\* last_interaction to the id of an entry on that tile.
C9_HackedOnlyAtSpriteCheck ==
    [][(~SpriteHacked(game_data) /\ SpriteHacked(game_data')) =>
          /\ AtSpriteCheck
          /\ Occupants # {}
          /\ mem'.sprite_index = 255
          /\ game_data'.last_interaction \in Occupants
      ]_vars

\* Witness of C9: an interception at the first checkpoint, the sprite counter
\* zero, of a peer reached by wrapping around the byte.
C9_Witness ==
    /\ dpc = "exec"
    /\ cpu.pc = SPRITE_CHECK_EXIT_1
    /\ mem.num_sprites = 0
    /\ mem.map_x = 0 /\ mem.map_y = 0 /\ mem.player_dir = 4
    /\ SpriteHacked(game_data)
    /\ mem.sprite_index = 255
    /\ game_data.last_interaction = 1
    /\ game_data.other_players[1].movement_data.map_y = 255

\* C10 as claimed: with an entry p on the facing tile, the hooks reaching
\* either sprite-check checkpoint set sprite_state to Hacked and
\* last_interaction to p.
C10_AsClaimed ==
    [][(HooksRun /\ cpu.pc \in {SPRITE_CHECK_EXIT_1, SPRITE_CHECK_EXIT_2}) =>
          \A p \in Occupants :
              SpriteHacked(game_data') /\ game_data'.last_interaction = p
      ]_vars

\* C10 amended: with one or more entries on the facing tile, the hooks
\* reaching SPRITE_CHECK_EXIT_2, or SPRITE_CHECK_EXIT_1 while the sprite
\* counter is zero, set sprite_state to Hacked and last_interaction to the id
\* of one of those entries (the entry itself when it is alone on the tile);
\* SPRITE_CHECK_EXIT_1 with a nonzero sprite counter leaves both as they were.
C10_SpriteCheckHacks ==
    [][/\ (AtSpriteCheck /\ Occupants # {}) =>
              /\ SpriteHacked(game_data')
              /\ game_data'.last_interaction \in Occupants
              /\ Cardinality(Occupants) = 1 =>
                    game_data'.last_interaction = CHOOSE p \in Occupants : TRUE
       /\ (HooksRun /\ cpu.pc = SPRITE_CHECK_EXIT_1 /\ mem.num_sprites # 0) =>
              /\ game_data'.sprite_id_state = game_data.sprite_id_state
              /\ game_data'.last_interaction = game_data.last_interaction
      ]_vars

\* Witness of C10: the second checkpoint reached with two peers on the
\* facing tile and a nonzero sprite counter; the second of them is recorded.
C10_Witness ==
    /\ dpc = "exec"
    /\ cpu.pc = SPRITE_CHECK_EXIT_2
    /\ mem.num_sprites = 1
    /\ Cardinality(Occupants) = 2
    /\ SpriteHacked(game_data)
    /\ game_data.last_interaction = 2

(***************************************************************************)
(* SpecTable: reconciliation of the PlayerTable.  The relay sends          *)
(* FullUpdate, MovementUpdate and PlayerQuit for two peers in any order;   *)
(* the engine runs frames that reach no checkpoint.                        *)
(***************************************************************************)
OtherName == <<134, 128, 145, 152>>     \* "GARY"
TableData ==
    {[id |-> 0, name |-> PeerName, movement_data |-> Movement(0, 2, 1, 0, 0)],
     [id |-> 0, name |-> OtherName, movement_data |-> Movement(1, 5, 5, 4, 0)]}
TableMoves == {Movement(0, 3, 1, 12, 7), Movement(0, 2, 1, 0, 0)}
TableLines ==
    {Line(FullUpdate(p, d)) : p \in PeerIds, d \in TableData}
    \cup {Line(MovementUpdate(p, mv)) : p \in PeerIds, mv \in TableMoves}
    \cup {Line(PlayerQuit(p)) : p \in PeerIds}

NextTable ==
    \/ Handshake(Line(PlayerJoin(LocalId)))
    \/ \E line \in TableLines : ReaderLine(line)
    \/ EmuIdle
    \/ EmuTick
    \/ \E pcIn \in Elsewhere, w \in SessionCells : CpuStep(pcIn, w)
    \/ HookStep
    \/ FrameEnd
    \/ NetIdle
    \/ SendUpdate
    \/ WriterSend
    \/ RecvEvent
    \/ RecvDone

SpecTable == Init /\ [][NextTable]_vars

(***************************************************************************)
(* Claims checked under SpecTable                                          *)
(***************************************************************************)
Table == game_data.other_players
TableAfter == game_data'.other_players
Keys == DOMAIN Table
KeysAfter == DOMAIN TableAfter
\* The entries other than i are the same before and after the step.
OthersUnchanged(i) ==
    /\ KeysAfter \ {i} = Keys \ {i}
    /\ \A k \in Keys \ {i} : TableAfter[k] = Table[k]

\* C5: applying FullUpdate(i, data) leaves table[i] = data (inserted or
\* replaced) and every other entry unchanged; applying PlayerQuit(i) removes
\* the entry of i and leaves every other entry unchanged; the table starts
\* empty and no other step changes its key set, so the keys are the ids whose
\* most recent FullUpdate was not followed by a PlayerQuit.
C5_TableMembership ==
    /\ [][/\ Applies("FullUpdate") =>
                /\ Head(global_q).id \in KeysAfter
                /\ TableAfter[Head(global_q).id] = Head(global_q).data
                /\ OthersUnchanged(Head(global_q).id)
          /\ Applies("PlayerQuit") =>
                /\ Head(global_q).id \notin KeysAfter
                /\ OthersUnchanged(Head(global_q).id)
          /\ KeysAfter # Keys =>
                \/ Applies("FullUpdate") /\ KeysAfter = Keys \cup {Head(global_q).id}
                \/ Applies("PlayerQuit") /\ KeysAfter = Keys \ {Head(global_q).id}
         ]_vars
    /\ [](conn # "up" => Keys = {})

\* Witness of C5: a peer whose entry was replaced (the entry holds the second
\* data) stays while the other, once known, has quit: the inbound pass has
\* just applied that PlayerQuit.
C5_Witness ==
    /\ dpc = "recv"
    /\ Keys = {1}
    /\ Table[1].name = OtherName
    /\ last_state # NewPlayerData
    /\ reader = "running"
    /\ global_q = <<>>

\* C6: applying MovementUpdate(i, m) with i in the table changes that entry's
\* movement to m and nothing else of it; with i absent the table is
\* unchanged; either way the key set and every other entry are unchanged.
C6_MovementUpdate ==
    [][Applies("MovementUpdate") =>
          LET i == Head(global_q).id
          IN  /\ KeysAfter = Keys
              /\ OthersUnchanged(i)
              /\ i \in Keys =>
                    /\ TableAfter[i].movement_data = Head(global_q).data
                    /\ TableAfter[i].id = Table[i].id
                    /\ TableAfter[i].name = Table[i].name
                    /\ DOMAIN TableAfter[i] = DOMAIN Table[i]
              /\ i \notin Keys => TableAfter = Table
      ]_vars

\* Witness of C6: an entry whose movement a MovementUpdate replaced (no
\* FullUpdate carries that movement) beside a table that lacks the other id.
C6_Witness ==
    /\ Keys = {2}
    /\ Table[2].name = PeerName
    /\ Table[2].movement_data = Movement(0, 3, 1, 12, 7)

(***************************************************************************)
(* SpecSync: the handshake and the outbound side.  The relay's first line  *)
(* is a join with one of two ids, another event, or text that does not     *)
(* decode; afterwards it asks for updates and announces one peer.  The     *)
(* engine turns the local player between right and down, so its PlayerData *)
(* changes and changes back, and may run into the peer; the user submits   *)
(* chat lines.                                                             *)
(***************************************************************************)
JoinIds == {LocalId, LocalId + 1}
SyncJoinLines ==
    {Line(PlayerJoin(i)) : i \in JoinIds}
    \cup {Line(UpdateRequest), Line(FullUpdate(1, PeerAt(1, 0, 2, 1))), Garbage}
SyncLines == {Line(UpdateRequest), Line(FullUpdate(1, PeerAt(1, 0, 2, 1)))}
SyncPCs == {SPRITE_CHECK_EXIT_2, DISPLAY_TEXT_ID_AFTER_INIT} \cup Elsewhere
SyncCells == {Cells(1, 1, 12, 0, PartyA), Cells(1, 1, 0, 0, PartyA)}
ChatLines == {<<72, 73>>}   \* "HI"

NextSync ==
    \/ \E line \in SyncJoinLines : Handshake(line)
    \/ HandshakeReadError
    \/ \E line \in SyncLines : ReaderLine(line)
    \/ WriterSend
    \/ \E msg \in ChatLines : SendMessage(msg)
    \/ EmuIdle
    \/ EmuTick
    \/ \E pcIn \in SyncPCs, w \in SyncCells : CpuStep(pcIn, w)
    \/ HookStep
    \/ FrameEnd
    \/ NetIdle
    \/ SendUpdate
    \/ RecvEvent
    \/ RecvDone

SpecSync == Init /\ [][NextSync]_vars

(***************************************************************************)
(* Claims checked under SpecSync                                           *)
(***************************************************************************)
\* The local PlayerData the session holds is last_state; the value last
\* broadcast is the data of the last FullUpdate enqueued (last_broadcast).

\* C3 as claimed: an outbound pass that finds the local PlayerData different
\* from the value last broadcast emits exactly one FullUpdate, carrying the
\* local PlayerData, and one that finds them equal emits no FullUpdate.
C3_AsClaimed ==
    [][OutboundPass =>
          /\ last_state # last_broadcast =>
                OfType(Enqueued, "FullUpdate") = <<FullUpdate(id, last_state)>>
          /\ last_state = last_broadcast =>
                OfType(Enqueued, "FullUpdate") = <<>>
      ]_vars

\* C3 amended: an outbound pass emits exactly one FullUpdate, carrying the
\* local PlayerData, when an engine pass changed the local PlayerData since
\* the previous outbound pass (new_update is exactly that: raised by a frame
\* end that finds a different PlayerData, lowered by the outbound pass only),
\* and none otherwise; the local PlayerData differing from the value last
\* broadcast is one such case.
C3_OutboundFullUpdate ==
    /\ [][/\ OutboundPass =>
                OfType(Enqueued, "FullUpdate")
                    = IF new_update THEN <<FullUpdate(id, last_state)>> ELSE <<>>
          /\ new_update' = (~OutboundPass /\ (new_update \/ last_state' # last_state))
          /\ last_state' # last_state =>
                (dpc = "exec" /\ dpc' = "net" /\ last_state' = player_data(mem))
         ]_vars
    /\ [](last_state # last_broadcast => new_update)

\* Witness of C3: the outbound pass has just broadcast a PlayerData that
\* differs from the one the first frames produced.
C3_Witness ==
    /\ dpc = "recv"
    /\ local_q = <<FullUpdate(id, last_state)>>
    /\ last_state.movement_data.direction = 0
    /\ last_broadcast = last_state
    /\ ~new_update

\* handle_network has read a first line.
JoinRead == "json" \in DOMAIN join_line
WellFormedJoin == JoinRead /\ join_line.json /\ join_line.ev.type = "PlayerJoin"
\* The local identity an outbound event carries.
SenderOf(ev) ==
    CASE ev.type \in {"FullUpdate", "Chat"} -> ev.id
      [] ev.type = "BattleDataRequest" -> ev.from

\* C7: a first line that is not a well-formed PlayerJoin makes the setup fail
\* with DecodeError, with no thread started, the PlayerTable untouched and
\* the driver never run; a first line PlayerJoin(i) makes i the session's id,
\* and every FullUpdate, Chat and BattleDataRequest the session enqueues
\* carries it.
C7_Handshake ==
    /\ (JoinRead /\ ~WellFormedJoin) =>
          /\ conn = "failed"
          /\ err = "DecodeError"
          /\ reader = "none" /\ writer = "none"
          /\ game_data.other_players = <<>>
          /\ local_q = <<>> /\ global_q = <<>>
          /\ dpc = "main"
    /\ WellFormedJoin =>
          /\ conn = "up"
          /\ err = "none"
          /\ id = join_line.ev.id
          /\ \A k \in DOMAIN local_q :
                local_q[k].type \in {"FullUpdate", "Chat", "BattleDataRequest"} =>
                    SenderOf(local_q[k]) = id
    /\ conn = "up" => WellFormedJoin

\* Witness of C7: joined under the second id, the session waits for a battle
\* it has just requested in that name.
C7_Witness ==
    /\ WellFormedJoin
    /\ id = LocalId + 1
    /\ local_q = <<BattleDataRequest(1, LocalId + 1)>>

(***************************************************************************)
(* Further claims checked under SpecHook                                   *)
(***************************************************************************)
TextHacked(gd) == gd.text_state = "Hacked"

\* What the engine is to read for "PLAYER has nothing\nto say.": TEXT_START,
\* one code per character, END_MSG, TERMINATOR.
ExpectedFrame ==
    <<0, 143, 139, 128, 152, 132, 145, 127, 167, 160, 178, 127, 173, 174, 179,
      167, 168, 173, 166, 78, 179, 174, 127, 178, 160, 184, 232, 87, 80>>

\* C11: text_state turns from Normal to Hacked only in a step of the hooks
\* with sprite_state already Hacked and the pc at DISPLAY_TEXT_ID_AFTER_INIT;
\* that step sets the pc to DISPLAY_TEXT_SETUP_DONE and the frame-delay byte
\* to 30, appends the framed message to current_message, sets network_request
\* to Battle(last_interaction) and game_state to Waiting; with sprite_state
\* Normal at that checkpoint the step changes nothing.
C11_TextInterception ==
    [][/\ (~TextHacked(game_data) /\ TextHacked(game_data')) => AtTextCheck
       /\ AtTextCheck =>
              /\ TextHacked(game_data')
              /\ cpu'.pc = DISPLAY_TEXT_SETUP_DONE
              /\ mem'.frame_counter = 30
              /\ game_data'.current_message = game_data.current_message \o ExpectedFrame
              /\ game_data'.network_request = Battle(game_data.last_interaction)
              /\ game_data'.game_state = "Waiting"
       /\ (HooksRun /\ cpu.pc = DISPLAY_TEXT_ID_AFTER_INIT /\ ~SpriteHacked(game_data)) =>
              /\ cpu' = cpu /\ mem' = mem /\ game_data' = game_data
      ]_vars

\* Witness of C11: the hooks have just intercepted the dialogue with the peer
\* the sprite check recorded.
C11_Witness ==
    /\ dpc = "exec"
    /\ cpu.pc = DISPLAY_TEXT_SETUP_DONE
    /\ mem.frame_counter = 30
    /\ TextHacked(game_data)
    /\ game_data.current_message = ExpectedFrame
    /\ game_data.last_interaction \in PeerIds
    /\ game_data.network_request = Battle(game_data.last_interaction)
    /\ Waiting

(***************************************************************************)
(* SpecText: the text processor inside one frame.  A peer stands on the    *)
(* tile the local player faces; the engine steps through every checkpoint, *)
(* the next-character ones included, in any order.                         *)
(***************************************************************************)
TextTables == {<<>>, TableOf({PeerAt(1, 0, 2, 1)})}
TextPCs == Checkpoints \cup Elsewhere
TextCells == {Cells(1, 1, 12, 0, PartyA)}

\* run inside emulator.frame(), the handshake and some inbound passes done.
InitText ==
    /\ conn = "up"
    /\ join_line = Line(PlayerJoin(LocalId))
    /\ err = "none"
    /\ id = LocalId
    /\ reader = "running"
    /\ writer = "running"
    /\ global_q = <<>>
    /\ local_q = <<>>
    /\ \E t \in TextTables : game_data = [NewGameData EXCEPT !.other_players = t]
    /\ cpu = [pc |-> 0, a |-> 0]
    /\ mem = InitMem
    /\ last_state = NewPlayerData
    /\ new_update = FALSE
    /\ dpc = "exec"
    /\ last_broadcast = NewPlayerData
    /\ eval = NoEval
    /\ peer = NoPeer

NextText ==
    \/ \E pcIn \in TextPCs, w \in TextCells : CpuStep(pcIn, w)
    \/ HookStep

SpecText == InitText /\ [][NextText]_vars

(***************************************************************************)
(* Claims checked under SpecText                                           *)
(***************************************************************************)
\* The hooks run at a next-character checkpoint.
AtNextChar ==
    /\ HooksRun
    /\ cpu.pc \in {TEXT_PROCESSOR_NEXT_CHAR_1, TEXT_PROCESSOR_NEXT_CHAR_2}
\* q is what is left of a run of framed messages once its front was read.
FramesLeft(q) ==
    \A i \in 1..Len(q) :
        q[Len(q) - i + 1]
            = ExpectedFrame[Len(ExpectedFrame) - ((i - 1) % Len(ExpectedFrame))]

\* C12: with text_state Hacked, a step of the hooks at a next-character
\* checkpoint moves the front byte of current_message into the accumulator
\* (TERMINATOR when it is empty, and it stays empty) and adds one to the pc;
\* the queue holds the bytes of framed messages in their order, so they are
\* delivered first in, first out, then TERMINATOR; with text_state Normal the
\* step changes neither accumulator, pc nor queue.
C12_NextCharacter ==
    /\ [][/\ (AtNextChar /\ TextHacked(game_data)) =>
                /\ cpu'.pc = cpu.pc + 1
                /\ IF game_data.current_message = <<>>
                   THEN /\ cpu'.a = TERMINATOR
                        /\ game_data'.current_message = <<>>
                   ELSE /\ <<cpu'.a>> \o game_data'.current_message
                               = game_data.current_message
          /\ (AtNextChar /\ ~TextHacked(game_data)) =>
                /\ cpu' = cpu
                /\ game_data'.current_message = game_data.current_message
         ]_vars
    /\ [](FramesLeft(game_data.current_message))

\* Witness of C12: the whole frame was delivered and the arrival after its
\* last byte read TERMINATOR from the empty queue.
C12_Witness ==
    /\ dpc = "exec"
    /\ TextHacked(game_data)
    /\ game_data.current_message = <<>>
    /\ mem.frame_counter = 30
    /\ cpu.a = TERMINATOR
    /\ cpu.pc = TEXT_PROCESSOR_NEXT_CHAR_2 + 1

(***************************************************************************)
(* SpecFail: the three flows when the stream fails.  The inbound thread    *)
(* may meet a read error or the end of the stream at any time; any write   *)
(* of the outbound thread may fail.  The engine turns the local player     *)
(* between right and down, the relay asks for updates and announces a      *)
(* peer, the user submits chat lines.                                      *)
(***************************************************************************)
FailLines == {Line(UpdateRequest), Line(FullUpdate(1, PeerAt(1, 0, 2, 1)))}

FailDriver ==
    \/ \E msg \in ChatLines : SendMessage(msg)
    \/ EmuIdle
    \/ EmuTick
    \/ \E pcIn \in Elsewhere, w \in SyncCells : CpuStep(pcIn, w)
    \/ HookStep
    \/ FrameEnd
    \/ NetIdle
    \/ SendUpdate
    \/ RecvEvent
    \/ RecvDone

NextFail ==
    \/ Handshake(Line(PlayerJoin(LocalId)))
    \/ \E line \in FailLines : ReaderLine(line)
    \/ ReaderError
    \/ WriterSend
    \/ WriterSendFails
    \/ FailDriver

SpecFail == Init /\ [][NextFail]_vars

(***************************************************************************)
(* Claims checked under SpecFail                                           *)
(***************************************************************************)
\* C13: the step in which the inbound thread meets a read error or the end of
\* the stream changes nothing but that thread's state; from then on no event
\* is added to the inbound channel, the driver never fails and always has a
\* next step (its inbound pass ends on the empty channel), and the outbound
\* thread never stops: every step that takes an event off the outbound
\* channel, the write failing or not, leaves it running, and it can take the
\* next event whenever there is one.  (The driver's next step is stated for
\* an outbound channel within MaxLocalQ, the bound on its backlog.)
C13_FlowIndependence ==
    /\ [][/\ (reader = "running" /\ reader' = "stopped") =>
                UNCHANGED <<conn, join_line, err, id, writer, global_q, local_q,
                            game_data, cpu, mem, syncVars, dpc>>
          /\ reader = "stopped" =>
                /\ reader' = "stopped"
                /\ Len(global_q') <= Len(global_q)
          /\ writer = "running" => writer' = "running"
         ]_vars
    /\ [](reader = "stopped" =>
            /\ dpc # "panic"
            /\ writer = "running"
            /\ local_q # <<>> => ENABLED WriterSend /\ ENABLED WriterSendFails
            /\ Len(local_q) <= MaxLocalQ => ENABLED FailDriver
            /\ (dpc = "recv" /\ global_q = <<>>) => ENABLED RecvDone)

\* Witness of C13: the inbound thread has stopped and its channel is drained;
\* the driver has just enqueued the PlayerData of a later frame, which the
\* outbound thread is about to write.
C13_Witness ==
    /\ reader = "stopped"
    /\ writer = "running"
    /\ global_q = <<>>
    /\ dpc = "recv"
    /\ local_q = <<FullUpdate(id, last_state)>>
    /\ last_state.movement_data.direction = 0
    /\ 1 \in DOMAIN game_data.other_players

(***************************************************************************)
(* SpecJoin: the relay announces, after the handshake, that a peer joined. *)
(***************************************************************************)
JoinLines ==
    {Line(PlayerJoin(1)), Line(FullUpdate(1, PeerAt(1, 0, 2, 1))), Line(UpdateRequest)}

NextJoin ==
    \/ Handshake(Line(PlayerJoin(LocalId)))
    \/ \E line \in JoinLines : ReaderLine(line)
    \/ WriterSend
    \/ EmuIdle
    \/ EmuTick
    \/ \E pcIn \in Elsewhere, w \in SyncCells : CpuStep(pcIn, w)
    \/ HookStep
    \/ FrameEnd
    \/ NetIdle
    \/ SendUpdate
    \/ RecvEvent
    \/ RecvDone

SpecJoin == Init /\ [][NextJoin]_vars

(***************************************************************************)
(* Claims checked under SpecJoin                                           *)
(***************************************************************************)
\* C14 as claimed: the inbound pass that takes a PlayerJoin off the channel
\* after the handshake leaves the PlayerTable, game_state and the outbound
\* channel as they were, does not fail, and stays in its loop to take the
\* events queued behind it.
C14_AsClaimed ==
    [][Applies("PlayerJoin") =>
          /\ game_data'.other_players = game_data.other_players
          /\ game_data'.game_state = game_data.game_state
          /\ local_q' = local_q
          /\ dpc' = "recv"
      ]_vars

(***************************************************************************)
(* SpecOrder: the three threads around the two channels.  The inbound      *)
(* thread has queued a burst of events for peer 1 before the driver's      *)
(* first pass and goes on with events for peer 2; the engine may run into  *)
(* peer 1.  The burst is an entry followed by a move of that entry, in     *)
(* either order.                                                           *)
(***************************************************************************)
BurstMove == Movement(0, 2, 1, 4, 3)
OrderBursts ==
    {<<FullUpdate(1, PeerAt(1, 0, 2, 1)), MovementUpdate(1, BurstMove)>>,
     <<MovementUpdate(1, BurstMove), FullUpdate(1, PeerAt(1, 0, 2, 1))>>}
OrderLines == {Line(FullUpdate(2, PeerAt(2, 0, 5, 5))), Line(PlayerQuit(2))}
OrderPCs ==
    {OVERWORLD_LOOP_START, SPRITE_CHECK_EXIT_2, DISPLAY_TEXT_ID_AFTER_INIT,
     TEXT_PROCESSOR_END} \cup Elsewhere

\* run at the top of its loop, right after the handshake.
InitOrder ==
    /\ conn = "up"
    /\ join_line = Line(PlayerJoin(LocalId))
    /\ err = "none"
    /\ id = LocalId
    /\ reader = "running"
    /\ writer = "running"
    /\ global_q \in OrderBursts
    /\ local_q = <<>>
    /\ game_data = NewGameData
    /\ cpu = [pc |-> 0, a |-> 0]
    /\ mem = InitMem
    /\ last_state = NewPlayerData
    /\ new_update = FALSE
    /\ dpc = "emu"
    /\ last_broadcast = NewPlayerData
    /\ eval = NoEval
    /\ peer = NoPeer

\* The steps of each thread.
OrderReader == \E line \in OrderLines : ReaderLine(line)
OrderWriter == WriterSend
OrderDriver ==
    \/ EmuIdle
    \/ EmuTick
    \/ \E pcIn \in OrderPCs, w \in SessionCells : CpuStep(pcIn, w)
    \/ HookStep
    \/ FrameEnd
    \/ NetIdle
    \/ SendUpdate
    \/ RecvEvent
    \/ RecvDone

NextOrder == OrderReader \/ OrderWriter \/ OrderDriver

SpecOrder == InitOrder /\ [][NextOrder]_vars

(***************************************************************************)
(* Claims checked under SpecOrder                                          *)
(***************************************************************************)
\* sprite_state, text_state, last_interaction and the pending message.
InterceptionState(gd) ==
    <<gd.sprite_id_state, gd.text_state, gd.last_interaction, gd.current_message>>
\* What the driver alone owns.
driverVars == <<game_data, cpu, mem, last_state, new_update, dpc>>

\* C15: the PlayerTable changes only in a step of the driver's inbound pass
\* that takes one event, the head, off the inbound channel, and the
\* InterceptionState only in a step of the hooks; a step of the inbound
\* thread appends one event to the inbound channel and touches nothing of the
\* driver's, a step of the outbound thread removes the head of the outbound
\* channel and touches nothing of the driver's; and the inbound channel
\* changes only by an append at its back or the removal of its head, so
\* events are applied in the order they were enqueued.
C15_SingleReconciliationPoint ==
    [][/\ game_data'.other_players # game_data.other_players =>
              /\ dpc = "recv" /\ global_q # <<>> /\ global_q' = Tail(global_q)
              /\ Head(global_q).type \in {"FullUpdate", "MovementUpdate", "PlayerQuit"}
              /\ Head(global_q).type = "FullUpdate" =>
                    game_data'.other_players[Head(global_q).id] = Head(global_q).data
       /\ InterceptionState(game_data') # InterceptionState(game_data) => HooksRun
       /\ OrderReader =>
              /\ \E line \in OrderLines : global_q' = Append(global_q, line.ev)
              /\ UNCHANGED <<local_q, driverVars>>
       /\ OrderWriter =>
              /\ local_q' = Tail(local_q)
              /\ UNCHANGED <<global_q, driverVars>>
       /\ global_q' # global_q =>
              \/ Len(global_q') = Len(global_q) + 1
                 /\ SubSeq(global_q', 1, Len(global_q)) = global_q
                 /\ UNCHANGED driverVars
              \/ global_q # <<>> /\ global_q' = Tail(global_q) /\ dpc = "recv"
      ]_vars

\* Witness of C15: the burst "entry, then its move" was applied in that order
\* (the other order leaves the entry where its FullUpdate put it) while the
\* inbound thread queued an event for peer 2 behind it.
C15_Witness ==
    /\ dpc = "recv"
    /\ 1 \in DOMAIN game_data.other_players
    /\ game_data.other_players[1].movement_data = BurstMove
    /\ global_q = <<FullUpdate(2, PeerAt(2, 0, 5, 5))>>

(***************************************************************************)
(* Rendering: client/src/client.rs                                         *)
(***************************************************************************)
\* Mutant: the offset is computed at rest as well.
get_player_position_NoRest(player) ==
    LET x == player.movement_data.map_x * 16
        y == player.movement_data.map_y * 16
        ticks == player.movement_data.walk_counter
        offset == (((8 - ticks) % 256) * 2) % 256
        d == player.movement_data.direction
    IN  IF d = 0 THEN <<x, y + offset>>
        ELSE IF d = 4 THEN <<x, y - offset>>
        ELSE IF d = 8 THEN <<x - offset, y>>
        ELSE IF d = 12 THEN <<x + offset, y>>
        ELSE <<x, y>>

\* get_player_position: the pixel position of a player; the offset is u8
\* arithmetic widened to i32.
get_player_position(player) ==
    LET x == player.movement_data.map_x * 16
        y == player.movement_data.map_y * 16
        ticks == player.movement_data.walk_counter
        offset == IF ticks = 0 THEN 0 ELSE (((8 - ticks) % 256) * 2) % 256
        d == player.movement_data.direction
    IN  IF d = 0 THEN <<x, y + offset>>
        ELSE IF d = 4 THEN <<x, y - offset>>
        ELSE IF d = 8 THEN <<x - offset, y>>
        ELSE IF d = 12 THEN <<x + offset, y>>
        ELSE <<x, y>>

\* The render pass of run evaluates get_player_position for a player.
CallPosition(player) == [fn |-> "get_player_position", arg |-> player, done |-> FALSE]
EvalPosition ==
    /\ eval.fn = "get_player_position"
    /\ ~eval.done
    /\ eval' = [fn |-> eval.fn, arg |-> eval.arg, done |-> TRUE,
                ret |-> get_player_position(eval.arg)]
    /\ UNCHANGED <<netVars, global_q, local_q, game_data, cpu, mem, syncVars, dpc>>
    /\ UNCHANGED peer

(***************************************************************************)
(* SpecPosition: get_player_position on players at the corners and inside  *)
(* of a map, in each direction (and one value that is none), at every      *)
(* walk counter of a step.                                                 *)
(***************************************************************************)
WalkStart == 8      \* the walk counter when a step begins
Directions == {0, 4, 8, 12}
PositionInputs ==
    {[id |-> 1, name |-> PeerName, movement_data |-> Movement(0, x, y, d, w)] :
        x \in {0, 3, 255}, y \in {0, 7, 255}, d \in Directions \cup {1}, w \in 0..WalkStart}

InitPosition ==
    /\ conn = "up"
    /\ join_line = Line(PlayerJoin(LocalId))
    /\ err = "none"
    /\ id = LocalId
    /\ reader = "running"
    /\ writer = "running"
    /\ global_q = <<>>
    /\ local_q = <<>>
    /\ game_data = NewGameData
    /\ cpu = [pc |-> 0, a |-> 0]
    /\ mem = InitMem
    /\ last_state = NewPlayerData
    /\ new_update = FALSE
    /\ dpc = "emu"
    /\ last_broadcast = NewPlayerData
    /\ \E player \in PositionInputs : eval = CallPosition(player)
    /\ peer = NoPeer

NextPosition == EvalPosition

SpecPosition == InitPosition /\ [][NextPosition]_vars

(***************************************************************************)
(* Claims checked under SpecPosition                                       *)
(***************************************************************************)
Abs(n) == IF n < 0 THEN -n ELSE n
\* A call of get_player_position has returned, for one of the four directions.
PositionReturned ==
    /\ eval.fn = "get_player_position"
    /\ eval.done
    /\ eval.arg.movement_data.direction \in Directions
    /\ eval.arg.movement_data.walk_counter \in 0..8
\* The offset of the result from the origin of the player's tile.
DrawOffset ==
    <<eval.ret[1] - eval.arg.movement_data.map_x * 16,
      eval.ret[2] - eval.arg.movement_data.map_y * 16>>
\* The offset has magnitude n on the axis of the direction and 0 on the other.
OffsetAlongDirection(n) ==
    IF eval.arg.movement_data.direction \in {0, 4}
    THEN DrawOffset[1] = 0 /\ Abs(DrawOffset[2]) = n
    ELSE DrawOffset[2] = 0 /\ Abs(DrawOffset[1]) = n

\* C16 as claimed: for every walk counter in 0..8 and each of the four
\* directions the offset has magnitude (8 - walk_counter) * 2 on the axis of
\* the direction and 0 on the other, and at walk counter 0 it is (0, 0).
C16_AsClaimed ==
    PositionReturned =>
        /\ OffsetAlongDirection((8 - eval.arg.movement_data.walk_counter) * 2)
        /\ eval.arg.movement_data.walk_counter = 0 => DrawOffset = <<0, 0>>

\* C16 amended: the magnitude is (8 - walk_counter) * 2 for every walk
\* counter in 1..8; at walk counter 0 the offset is (0, 0).
C16_DrawOffset ==
    PositionReturned =>
        /\ eval.arg.movement_data.walk_counter \in 1..8 =>
              OffsetAlongDirection((8 - eval.arg.movement_data.walk_counter) * 2)
        /\ eval.arg.movement_data.walk_counter = 0 => DrawOffset = <<0, 0>>

\* Witness of C16: a player one tick into a step to the left from the left
\* edge of the map is drawn 14 pixels beyond it.
C16_Witness ==
    /\ PositionReturned
    /\ eval.arg.movement_data.map_x = 0
    /\ eval.arg.movement_data.direction = 8
    /\ eval.arg.movement_data.walk_counter = 1
    /\ eval.ret = <<-14, eval.arg.movement_data.map_y * 16>>

(***************************************************************************)
(* SpecCodec: the text encoder on strings of up to MaxText characters: the *)
(* ends and the inside of each class, every punctuation character, and     *)
(* characters outside all classes, beyond a byte too.                      *)
(***************************************************************************)
MaxText == 2        \* length of the strings built from CodecChars
Hello == <<72, 69, 76, 76, 79>>     \* "HELLO"
PunctuationChars == {40, 41, 58, 59, 91, 93, 39, 45, 63, 33, 46, 47, 44}
\* A Z K a z 0 9 space newline @ { e-acute euro-sign
CodecChars == {65, 90, 75, 97, 122, 48, 57, 32, 10, 64, 123, 233, 8364}
RECURSIVE Strings(_, _)
Strings(chars, n) ==
    IF n = 0 THEN {<<>>}
    ELSE Strings(chars, n - 1)
         \cup {Append(t, c) : t \in Strings(chars, n - 1), c \in chars}
CodecInputs ==
    Strings(CodecChars, MaxText) \cup {<<c>> : c \in PunctuationChars} \cup {Hello}

\* A caller (create_message_box, send_message, the Chat arm) collects
\* Encoder::new(text).
CallEncoder(text) == [fn |-> "Encoder", arg |-> text, done |-> FALSE]
EvalEncoder ==
    /\ eval.fn = "Encoder"
    /\ ~eval.done
    /\ eval' = [fn |-> eval.fn, arg |-> eval.arg, done |-> TRUE,
                ret |-> Encoder(eval.arg)]
    /\ UNCHANGED <<netVars, global_q, local_q, game_data, cpu, mem, syncVars, dpc>>
    /\ UNCHANGED peer

InitCodec ==
    /\ conn = "up"
    /\ join_line = Line(PlayerJoin(LocalId))
    /\ err = "none"
    /\ id = LocalId
    /\ reader = "running"
    /\ writer = "running"
    /\ global_q = <<>>
    /\ local_q = <<>>
    /\ game_data = NewGameData
    /\ cpu = [pc |-> 0, a |-> 0]
    /\ mem = InitMem
    /\ last_state = NewPlayerData
    /\ new_update = FALSE
    /\ dpc = "emu"
    /\ last_broadcast = NewPlayerData
    /\ \E text \in CodecInputs : eval = CallEncoder(text)
    /\ peer = NoPeer

NextCodec == EvalEncoder

SpecCodec == InitCodec /\ [][NextCodec]_vars

(***************************************************************************)
(* Claims checked under SpecCodec                                          *)
(***************************************************************************)
\* The code the engine's character table gives each punctuation character.
PunctuationCode ==
    [c \in PunctuationChars |->
        CASE c = 40 -> 138 [] c = 41 -> 139 [] c = 58 -> 140 [] c = 59 -> 141
          [] c = 91 -> 142 [] c = 93 -> 143 [] c = 39 -> 224 [] c = 45 -> 227
          [] c = 63 -> 230 [] c = 33 -> 231 [] c = 46 -> 232 [] c = 47 -> 243
          [] c = 44 -> 244]
\* The byte the claim gives a character.
ClaimedCode(c) ==
    CASE c \in 65..90 -> 128 + (c - 65)
      [] c \in 97..122 -> 160 + (c - 97)
      [] c \in 48..57 -> 246 + (c - 48)
      [] c = 32 -> 127
      [] c = 10 -> 78
      [] c \in PunctuationChars -> PunctuationCode[c]
      [] OTHER -> 230
EncoderReturned == eval.fn = "Encoder" /\ eval.done

\* C17: the encoder yields one byte per character, in order: 0x80 + offset
\* for a capital, 0xA0 + offset for a small letter, 0xF6 + offset for a
\* digit, SPACE for a space, LINE_DOWN for a newline, its fixed code for a
\* punctuation character and 0xE6 for any other character; "HELLO" gives
\* 0x87, 0x84, 0x8B, 0x8B, 0x8E.
C17_TextCodec ==
    EncoderReturned =>
        /\ Len(eval.ret) = Len(eval.arg)
        /\ \A i \in 1..Len(eval.arg) :
              /\ eval.ret[i] = ClaimedCode(eval.arg[i])
              /\ eval.ret[i] \in 0..255
        /\ eval.arg = Hello => eval.ret = <<135, 132, 139, 139, 142>>

\* Witness of C17: a capital followed by a character beyond a byte was encoded.
C17_Witness ==
    /\ EncoderReturned
    /\ eval.arg = <<90, 8364>>
    /\ eval.ret = <<153, 230>>

(***************************************************************************)
(* More claims checked under SpecHook                                      *)
(***************************************************************************)
\* C18: a step of the hooks with the pc at OVERWORLD_LOOP_START leaves
\* sprite_state Normal, whatever it was and whatever the PlayerTable holds,
\* and changes neither text_state, last_interaction, the pending message nor
\* the engine's memory.
C18_OverworldReset ==
    [][(HooksRun /\ cpu.pc = OVERWORLD_LOOP_START) =>
          /\ ~SpriteHacked(game_data')
          /\ game_data'.text_state = game_data.text_state
          /\ game_data'.last_interaction = game_data.last_interaction
          /\ game_data'.current_message = game_data.current_message
          /\ mem' = mem
      ]_vars

\* Witness of C18: the overworld loop started again after an interception of
\* sprite and text, with the peer still on the facing tile.
C18_Witness ==
    /\ dpc = "exec"
    /\ cpu.pc = OVERWORLD_LOOP_START
    /\ ~SpriteHacked(game_data)
    /\ TextHacked(game_data)
    /\ game_data.last_interaction = 2
    /\ game_data.current_message = ExpectedFrame
    /\ mem.sprite_index = 255
    /\ Occupants = {1, 2}

\* C20: a step of the hooks whose pc is none of the checkpoints the handlers
\* test changes nothing of the engine (pc, accumulator, memory) and nothing
\* of GameData; a step at a sprite-check checkpoint with no PlayerTable entry
\* on the facing tile leaves the sprite-index byte, sprite_state and
\* last_interaction as they were.
C20_HookFrame ==
    [][/\ (HooksRun /\ cpu.pc \notin Checkpoints) =>
              /\ cpu' = cpu
              /\ mem' = mem
              /\ game_data' = game_data
       /\ (HooksRun /\ cpu.pc \in {SPRITE_CHECK_EXIT_1, SPRITE_CHECK_EXIT_2}
                    /\ Occupants = {}) =>
              /\ mem'.sprite_index = mem.sprite_index
              /\ game_data'.sprite_id_state = game_data.sprite_id_state
              /\ game_data'.last_interaction = game_data.last_interaction
      ]_vars

\* Witness of C20: the hooks ran at the second sprite check with both peers
\* of the table off the facing tile, after an earlier interception whose
\* traces are all still there.
C20_Witness ==
    /\ dpc = "exec"
    /\ cpu.pc = SPRITE_CHECK_EXIT_2
    /\ Occupants = {}
    /\ DOMAIN game_data.other_players = {1, 2}
    /\ game_data.other_players[1].movement_data.map_id = mem.map_id
    /\ SpriteHacked(game_data)
    /\ TextHacked(game_data)
    /\ game_data.last_interaction = 1
    /\ mem.sprite_index = 255

(***************************************************************************)
(* More claims checked under SpecText                                      *)
(***************************************************************************)
\* C19: text_state goes from Hacked to Normal only in a step of the hooks
\* with the pc at TEXT_PROCESSOR_END, every such step leaves text_state
\* Normal, and the step at OVERWORLD_LOOP_START that resets sprite_state
\* leaves text_state as it was, so that sprite_state Normal with text_state
\* Hacked is a state the program reaches.
C19_TextReset ==
    [][/\ (TextHacked(game_data) /\ ~TextHacked(game_data')) =>
              (HooksRun /\ cpu.pc = TEXT_PROCESSOR_END)
       /\ (HooksRun /\ cpu.pc = TEXT_PROCESSOR_END) => ~TextHacked(game_data')
       /\ (HooksRun /\ cpu.pc = OVERWORLD_LOOP_START) =>
              game_data'.text_state = game_data.text_state
      ]_vars

\* Witness of C19: the hooks have run at OVERWORLD_LOOP_START during an
\* intercepted text, leaving sprite_state Normal and text_state Hacked.
C19_Witness ==
    /\ dpc = "exec"
    /\ cpu.pc = OVERWORLD_LOOP_START
    /\ ~SpriteHacked(game_data)
    /\ TextHacked(game_data)
    /\ game_data.last_interaction = 1

(***************************************************************************)
(* Further claims checked under Spec                                       *)
(***************************************************************************)
\* C21 as claimed: an inbound pass that applies a BattleDataResponse while
\* game_state is Normal (no request of this session is waiting for it)
\* leaves the engine's memory and game_state as they were.
C21_AsClaimed ==
    [][(Applies("BattleDataResponse") /\ ~Waiting) =>
          /\ mem' = mem
          /\ game_data'.game_state = game_data.game_state
      ]_vars

(***************************************************************************)
(* Further claims checked under SpecText                                   *)
(***************************************************************************)
\* C22 as claimed: every step of the hooks that sets text_state to Hacked
\* (the post-dialogue-init checkpoint after a sprite interception) leaves in
\* current_message exactly one framed message, with no byte of an earlier
\* interception before it.
C22_AsClaimed ==
    [][(AtTextCheck /\ TextHacked(game_data')) =>
          game_data'.current_message = ExpectedFrame
      ]_vars

(***************************************************************************)
(* SpecDuel: two sessions that walked into each other.  The local session  *)
(* stands on (1, 1) facing right, the peer on (2, 1) facing left; each has *)
(* just intercepted the other's sprite and text inside a frame, so each is *)
(* Waiting with a battle request against the other still to be sent.  The  *)
(* relay passes every line of one session on to the other.  Both engines   *)
(* stay off the checkpoints afterwards.                                    *)
(***************************************************************************)
DuelPeerId == 1

\* GameData right after the interception of the sprite and text of player p.
Intercepted(p) ==
    [NewGameData EXCEPT
        !.other_players = TableOf({p}),
        !.last_interaction = p.id,
        !.sprite_id_state = "Hacked",
        !.text_state = "Hacked",
        !.current_message = create_message_box(<<>>, NothingToSay),
        !.network_request = Battle(p.id),
        !.game_state = "Waiting"]

\* Memory at that point: the sentinel and the delay the hooks wrote.
InterceptedMem(m) == [m EXCEPT !.sprite_index = 255, !.frame_counter = 30]

\* The peer's memory: on (2, 1) facing left, with its own party and name.
PeerMem ==
    [InitMem EXCEPT !.map_x = 2, !.player_dir = 8, !.party = PartyB,
                    !.name = PeerName]

\* The local player as the peer's table holds it.
LocalAt(m, x, y) ==
    [id |-> LocalId, name |-> LocalName, movement_data |-> Movement(m, x, y, 12, 0)]

DuelCells == {Cells(1, 1, 12, 0, PartyA)}
DuelPeerCells == {Cells(2, 1, 8, 0, PartyB)}

InitDuel ==
    /\ conn = "up"
    /\ join_line = Line(PlayerJoin(LocalId))
    /\ err = "none"
    /\ id = LocalId
    /\ reader = "running"
    /\ writer = "running"
    /\ global_q = <<>>
    /\ local_q = <<>>
    /\ game_data = Intercepted(PeerAt(DuelPeerId, 0, 2, 1))
    /\ cpu = [pc |-> DISPLAY_TEXT_SETUP_DONE, a |-> 0]
    /\ mem = InterceptedMem(InitMem)
    /\ last_state = player_data(InitMem)
    /\ new_update \in BOOLEAN
    /\ dpc = "exec"
    /\ last_broadcast = IF new_update THEN NewPlayerData ELSE last_state
    /\ eval = NoEval
    /\ \E nu \in BOOLEAN :
          peer = [id |-> DuelPeerId,
                  game_data |-> Intercepted(LocalAt(0, 1, 1)),
                  mem |-> InterceptedMem(PeerMem),
                  last_state |-> player_data(PeerMem),
                  new_update |-> nu,
                  local_q |-> <<>>,
                  global_q |-> <<>>,
                  cpu |-> [pc |-> DISPLAY_TEXT_SETUP_DONE, a |-> 0],
                  dpc |-> "exec",
                  reader |-> "running",
                  writer |-> "running",
                  wire_in |-> <<>>,
                  wire_out |-> <<>>]

duelVars ==
    <<netVars, global_q, local_q, game_data, cpu, mem, syncVars, dpc, eval>>

\* Outbound thread of the local session: the event is encoded and written to
\* the socket, on its way to the peer.
DuelWriterSend ==
    /\ writer = "running"
    /\ local_q # <<>>
    /\ local_q' = Tail(local_q)
    /\ peer' = [peer EXCEPT !.wire_in = Append(@, Line(Head(local_q)))]
    /\ UNCHANGED <<netVars, global_q, game_data, cpu, mem, syncVars, dpc, eval>>

\* Inbound thread of the local session: a line of the peer is read, decoded
\* and sent to the driver.
DuelReaderLine ==
    /\ reader = "running"
    /\ peer.wire_out # <<>>
    /\ LET line == Head(peer.wire_out)
       IN  IF line.json
           THEN /\ Len(global_q) < MaxGlobalQ
                /\ global_q' = Append(global_q, line.ev)
                /\ reader' = reader
           ELSE /\ reader' = "panicked"
                /\ global_q' = global_q
    /\ peer' = [peer EXCEPT !.wire_out = Tail(@)]
    /\ UNCHANGED <<conn, join_line, err, id, writer, local_q, game_data, cpu, mem,
                   syncVars, dpc, eval>>

\* The peer's outbound thread.
PeerWriterSend ==
    /\ peer.writer = "running"
    /\ peer.local_q # <<>>
    /\ peer' = [peer EXCEPT !.local_q = Tail(@),
                            !.wire_out = Append(@, Line(Head(peer.local_q)))]
    /\ UNCHANGED duelVars

\* The peer's inbound thread: one line read; it is decoded and sent to the
\* peer's driver, or json::decode(..).unwrap() panics the thread.
PeerReaderLine ==
    /\ peer.reader = "running"
    /\ peer.wire_in # <<>>
    /\ LET line == Head(peer.wire_in)
       IN  IF line.json
           THEN /\ Len(peer.global_q) < MaxGlobalQ
                /\ peer' = [peer EXCEPT !.wire_in = Tail(@),
                                        !.global_q = Append(@, line.ev)]
           ELSE peer' = [peer EXCEPT !.wire_in = Tail(@),
                                     !.reader = "panicked"]
    /\ UNCHANGED duelVars

\* The peer's run: its emulator timer has not elapsed.
PeerEmuIdle ==
    /\ peer.dpc = "emu"
    /\ peer' = [peer EXCEPT !.dpc = "net"]
    /\ UNCHANGED duelVars

\* The peer's run: its emulator timer elapsed; game_ready decides whether a
\* frame runs.
PeerEmuTick ==
    /\ peer.dpc = "emu"
    /\ peer' = [peer EXCEPT !.dpc = IF peer.game_data.game_state = "Normal"
                                    THEN "exec" ELSE "net"]
    /\ UNCHANGED duelVars

\* The peer's emulator.frame(): its engine executes up to its next
\* instruction boundary.
PeerCpuStep(pcIn, w) ==
    /\ peer.dpc = "exec"
    /\ \/ pcIn # DISPLAY_TEXT_ID_AFTER_INIT
       \/ peer.game_data.sprite_id_state # "Hacked"
       \/ Len(peer.game_data.current_message) < MaxPending * FramedLen
    /\ peer' = [peer EXCEPT
                   !.cpu.pc = pcIn,
                   !.mem = [@ EXCEPT !.map_id = w.map_id, !.map_x = w.map_x,
                                     !.map_y = w.map_y,
                                     !.player_dir = w.player_dir,
                                     !.num_sprites = w.num_sprites,
                                     !.walk_counter = w.walk_counter,
                                     !.party = w.party],
                   !.dpc = "hook"]
    /\ UNCHANGED duelVars

\* The hook closure of the peer's emulator: both handlers on the same step.
PeerHookStep ==
    /\ peer.dpc = "hook"
    /\ \E r \in sprite_check_hack(peer.cpu, peer.mem, peer.game_data) :
          LET t == display_text_hack(r.cpu, r.mem, r.gd)
          IN  peer' = [peer EXCEPT !.cpu = t.cpu,
                                   !.mem = t.mem,
                                   !.game_data = t.gd,
                                   !.dpc = "exec"]
    /\ UNCHANGED duelVars

\* The peer's frame is over: data.update_player_data(extract::player_data(&mem)).
PeerFrameEnd ==
    /\ peer.dpc = "exec"
    /\ LET u == update_player_data(peer.last_state, peer.new_update,
                                   player_data(peer.mem))
       IN  peer' = [peer EXCEPT !.last_state = u.last_state,
                                !.new_update = u.new_update,
                                !.dpc = "net"]
    /\ UNCHANGED duelVars

\* The peer's run: its network timer has not elapsed.
PeerNetIdle ==
    /\ peer.dpc = "net"
    /\ peer' = [peer EXCEPT !.dpc = "emu"]
    /\ UNCHANGED duelVars

\* The peer's run: data.send_update().
PeerSendUpdate ==
    /\ peer.dpc = "net"
    /\ Len(peer.local_q) <= MaxLocalQ
    /\ LET s == send_update(peer.id, peer.last_state, peer.new_update,
                            peer.game_data, peer.local_q)
       IN  peer' = [peer EXCEPT !.local_q = s.local_q,
                                !.new_update = s.new_update,
                                !.game_data = s.gd,
                                !.dpc = "recv"]
    /\ UNCHANGED duelVars

\* The peer's run: data.recv_update(), try_recv yields an event.
PeerRecvEvent ==
    /\ peer.dpc = "recv"
    /\ peer.global_q # <<>>
    /\ Len(peer.local_q) <= MaxLocalQ
    /\ LET r == recv_event(Head(peer.global_q), peer.id, peer.last_state,
                           peer.game_data, peer.mem, peer.local_q)
       IN  peer' = [peer EXCEPT !.game_data = r.gd,
                                !.mem = r.mem,
                                !.local_q = r.local_q,
                                !.global_q = Tail(@),
                                !.dpc = IF r.panic THEN "panic" ELSE "recv"]
    /\ UNCHANGED duelVars

\* The peer's run: data.recv_update(), the channel is empty.
PeerRecvDone ==
    /\ peer.dpc = "recv"
    /\ peer.global_q = <<>>
    /\ peer' = [peer EXCEPT !.dpc = "emu"]
    /\ UNCHANGED duelVars

\* The steps of the local driver other than the outbound pass.
DuelDriver ==
    \/ EmuIdle
    \/ EmuTick
    \/ \E pcIn \in Elsewhere, w \in DuelCells : CpuStep(pcIn, w)
    \/ HookStep
    \/ FrameEnd
    \/ NetIdle
    \/ RecvEvent
    \/ RecvDone

\* The steps of the peer's driver other than the outbound pass.
PeerDriver ==
    \/ PeerEmuIdle
    \/ PeerEmuTick
    \/ \E pcIn \in Elsewhere, w \in DuelPeerCells : PeerCpuStep(pcIn, w)
    \/ PeerHookStep
    \/ PeerFrameEnd
    \/ PeerNetIdle
    \/ PeerRecvEvent
    \/ PeerRecvDone

NextDuel ==
    \/ DuelDriver
    \/ SendUpdate
    \/ DuelWriterSend
    \/ DuelReaderLine
    \/ PeerDriver
    \/ PeerSendUpdate
    \/ PeerWriterSend
    \/ PeerReaderLine

\* Each driver loop keeps turning and its network timer elapses again and
\* again, so the outbound pass, which its loop reaches infinitely often, runs
\* infinitely often; emulator.frame() returns after the cycles of one frame;
\* each thread blocked on a channel or on the socket takes what arrives.
FairDuel ==
    /\ WF_vars(DuelDriver)
    /\ SF_vars(FrameEnd)
    /\ SF_vars(SendUpdate)
    /\ WF_vars(DuelWriterSend)
    /\ WF_vars(DuelReaderLine)
    /\ WF_vars(PeerDriver)
    /\ SF_vars(PeerFrameEnd)
    /\ SF_vars(PeerSendUpdate)
    /\ WF_vars(PeerWriterSend)
    /\ WF_vars(PeerReaderLine)

SpecDuel == InitDuel /\ [][NextDuel]_vars /\ FairDuel

(***************************************************************************)
(* Claims checked under SpecDuel                                           *)
(***************************************************************************)
PeerWaiting == peer.game_data.game_state = "Waiting"

\* C23: when both sessions are Waiting, each with a battle request against
\* the other, then, lines being delivered and each driver's network pass
\* running again and again, both are eventually Normal.
C23_NoMutualDeadlock ==
    (Waiting /\ PeerWaiting) ~> (~Waiting /\ ~PeerWaiting)

\* Witness of C23: both sessions are back in Normal, each with the other's
\* party loaded for the battle, and nothing is left in flight.
C23_Witness ==
    /\ ~Waiting
    /\ ~PeerWaiting
    /\ PartyLoaded(mem, PartyB)
    /\ PartyLoaded(peer.mem, PartyA)
    /\ game_data.network_request.kind = "None"
    /\ peer.game_data.network_request.kind = "None"
    /\ local_q = <<>> /\ global_q = <<>>
    /\ peer.local_q = <<>> /\ peer.global_q = <<>>
    /\ peer.wire_in = <<>> /\ peer.wire_out = <<>>

====
